---- MODULE Spec2Model ----
(***************************************************************************)
(* Model of the objtree service object tree (jsouthworth/objtree).         *)
(*                                                                         *)
(* The heap is a sequence of Object records; an object reference is an     *)
(* index into it and NilObj is the nil reference.  The                     *)
(* three multiWriterValue fields of an Object hold immutable maps that are *)
(* replaced as a whole by Update, so each is modelled by its current map   *)
(* value; assigning one multiWriterValue to another (object.objects =      *)
(* obj.objects) copies the current map value.                               *)
(***************************************************************************)
EXTENDS Naturals, Integers, Sequences, FiniteSets, TLC

VARIABLES objs, sigref, addSent, rmSent, panicked, last, calls, tasks, gone, match,
          probe, thr, lk, hist, prop

vars == <<objs, sigref, addSent, rmSent, panicked, last, calls, tasks, gone, match,
          probe, thr, lk, hist, prop>>

\* the state of the threads, the locks and the property of the concurrent runs
conc == <<thr, lk, hist, prop>>

(***************************************************************************)
(* Bounds                                                                  *)
(***************************************************************************)
MaxCalls == 3       \* calls made on the tree in one run
BindCalls == 4      \* calls made in one binding run
CallCalls == 4      \* calls made in one run of calls
SigCalls == 3       \* calls made in one run of signals
RefCalls == 4       \* calls made in one run of listeners
IntroCalls == 4     \* calls made in one run of introspection
MaxOut == 3         \* most declared returns of a method
MaxArgs == 3        \* most declared parameters of a method and most body values
PropCalls == 3      \* calls made on one property
ConcCalls == 3      \* calls made in one concurrent run
StateCalls == 5     \* calls of AddMatchSignal and RemoveMatchSignal
NarrowCalls == 3    \* calls made on one object and its binding
ParCalls == 3       \* concurrent registrations and deletions of one run
WalkCalls == 3      \* calls made while one signal is delivered
MaxDepth == 3       \* longest object path, in segments
DeepDepth == 4      \* longest object path of the single-name tree
BindDepth == 2      \* longest object path of the binding runs

Names == {"a", "b"}
DeepNames == {"a"}
CapNames == {"X", "Y"}

(***************************************************************************)
(* reflect: types, method tables and the matcher                           *)
(***************************************************************************)
NilImpl == 0
NilObj == 0
Root == 1

EmptyMap == [x \in {} |-> 0]

MapPut(m, k, v) == [x \in DOMAIN m \cup {k} |-> IF x = k THEN v ELSE m[x]]

MapDel(m, k) == [x \in DOMAIN m \ {k} |-> m[x]]

Sig(in, out) == [in |-> in, out |-> out]

\* reflect.Object values handed to NewObject / built by newIntrospection, newPeer
ImplTestObj == 1
ImplTable2 == 2
ImplIntrospection == 3
ImplPeer == 4

UserImpls == {ImplTestObj, ImplTable2}

ObjectMethods(impl) ==
    CASE impl = ImplTestObj -> ("CallMe" :> Sig(<<>>, <<"string">>))
      [] impl = ImplTable2 -> ("CallMe" :> Sig(<<>>, <<"string">>)) @@
                              ("Notify" :> Sig(<<"string">>, <<>>))
      [] impl = ImplIntrospection -> ("Introspect" :> Sig(<<>>, <<"string">>))
      [] impl = ImplPeer -> ("Ping" :> Sig(<<>>, <<>>)) @@
                            ("GetMachineId" :> Sig(<<>>, <<"string">>))

ObjectProperties(impl) == EmptyMap

\* reflect.InterfaceType values handed to Implements / Receives
TypeCallMe == 1
TypeNotify == 2
TypeCallMeArg == 3
TypeIntrospection == 4
TypePeer == 5

UserTypes == {TypeCallMe, TypeNotify, TypeCallMeArg}

TypeMethods(typ) ==
    CASE typ = TypeCallMe -> ("CallMe" :> Sig(<<>>, <<"string">>))
      [] typ = TypeNotify -> ("Notify" :> Sig(<<"string">>, <<>>))
      [] typ = TypeCallMeArg -> ("CallMe" :> Sig(<<"string">>, <<"string">>))
      [] typ = TypeIntrospection -> ObjectMethods(ImplIntrospection)
      [] typ = TypePeer -> ObjectMethods(ImplPeer)

TypeProperties(typ) == EmptyMap

isSubsetOfMethods_NoOut(subset, set) ==
    /\ Cardinality(DOMAIN subset) <= Cardinality(DOMAIN set)
    /\ \A m \in DOMAIN subset :
          /\ m \in DOMAIN set
          /\ Len(subset[m].in) = Len(set[m].in)
          /\ \A j \in 1..Len(subset[m].in) : subset[m].in[j] = set[m].in[j]

isSubsetOfMethods(subset, set) ==
    /\ Cardinality(DOMAIN subset) <= Cardinality(DOMAIN set)
    /\ \A m \in DOMAIN subset :
          /\ m \in DOMAIN set
          /\ Len(subset[m].in) = Len(set[m].in)
          /\ Len(subset[m].out) = Len(set[m].out)
          /\ \A j \in 1..Len(subset[m].in) : subset[m].in[j] = set[m].in[j]
          /\ \A j \in 1..Len(subset[m].out) : subset[m].out[j] = set[m].out[j]

isSubsetOfProperties(subset, set) ==
    /\ Cardinality(DOMAIN subset) <= Cardinality(DOMAIN set)
    /\ \A p \in DOMAIN subset : p \in DOMAIN set /\ subset[p] = set[p]

\* a descriptor: the method and property types of an InterfaceType (nil: the
\* nil InterfaceType pointer) or of a reflect.Object
Desc(methods, properties) == [nil |-> FALSE, methods |-> methods, properties |-> properties]

NilDesc == [nil |-> TRUE, methods |-> EmptyMap, properties |-> EmptyMap]

\* reflect.Object.Implements: does the object described by o implement iface
ReflectImplements(iface, o) ==
    IF iface.nil THEN FALSE
    ELSE /\ isSubsetOfMethods(iface.methods, o.methods)
         /\ isSubsetOfProperties(iface.properties, o.properties)

\* reflect.Object.Implements, for a non-nil receiver and a non-nil type
ObjectImplements(impl, typ) ==
    ReflectImplements(Desc(TypeMethods(typ), TypeProperties(typ)),
                      Desc(ObjectMethods(impl), ObjectProperties(impl)))

InterfaceImplements_Impl(i, iface) ==
    ReflectImplements(iface, i.impl)

\* reflect.Interface.Implements, for the binding i = [typ, impl]
InterfaceImplements(i, iface) ==
    IF iface.nil THEN FALSE
    ELSE /\ isSubsetOfMethods(iface.methods, i.typ.methods)
         /\ isSubsetOfProperties(iface.properties, i.typ.properties)

\* reflect.Object.AsInterface
ObjectAsInterface(o, iface) ==
    IF ~ReflectImplements(iface, o)
    THEN [err |-> "DoesNotImplement", typ |-> NilDesc, impl |-> NilDesc]
    ELSE [err |-> "nil", typ |-> iface, impl |-> o]

\* reflect.Interface.AsInterface
InterfaceAsInterface(i, iface) ==
    IF ~InterfaceImplements(i, iface)
    THEN [err |-> "DoesNotImplement", typ |-> NilDesc, impl |-> NilDesc]
    ELSE [err |-> "nil", typ |-> iface, impl |-> i.impl]

(***************************************************************************)
(* objtree: constants and bindings                                         *)
(***************************************************************************)
fdtIntrospectable == "org.freedesktop.DBus.Introspectable"
fdtPeer == "org.freedesktop.DBus.Peer"

DefaultNames == {fdtIntrospectable, fdtPeer}

\* objtree.Interface{name, impl: reflect.Interface{typ, impl}}
Interface(name, typ, impl) == [name |-> name, typ |-> typ, impl |-> impl]

\* the (nil, false) result of a failed interface lookup
NoInterface == Interface("", 0, NilImpl)

newIntrospection == Interface(fdtIntrospectable, TypeIntrospection, ImplIntrospection)

newPeer == Interface(fdtPeer, TypePeer, ImplPeer)

\* reflect.Interface.Methods: the method names of the binding's type
InterfaceMethods(intf) == DOMAIN TypeMethods(intf.typ)

MemberNames == {"CallMe", "Notify"}

mkSignalKey(iface, member) == iface \o "." \o member

SigKeys == { mkSignalKey(i, m) : i \in CapNames, m \in MemberNames }

(***************************************************************************)
(* The heap threaded through the operations                                *)
(***************************************************************************)
Heap(o, s, a, r) == [objs |-> o, sigref |-> s, addSent |-> a, rmSent |-> r]

AddMatchSignal_Always(h, iface, member) ==
    LET key == mkSignalKey(iface, member) IN
    [h EXCEPT !.addSent[key] = @ + 1,
              !.sigref[key] = @ + 1]

\* mgrState.AddMatchSignal
AddMatchSignal(h, iface, member) ==
    LET key == mkSignalKey(iface, member) IN
    [h EXCEPT !.addSent[key] = IF h.sigref[key] = 0 THEN @ + 1 ELSE @,
              !.sigref[key] = @ + 1]

RemoveMatchSignal_NoTest(h, iface, member) ==
    LET key == mkSignalKey(iface, member) IN
    [h EXCEPT !.sigref[key] = @ - 1,
              !.rmSent[key] = IF h.sigref[key] = 1 THEN @ + 1 ELSE @]

\* mgrState.RemoveMatchSignal
RemoveMatchSignal(h, iface, member) ==
    LET key == mkSignalKey(iface, member) IN
    IF h.sigref[key] = 0 THEN h
    ELSE [h EXCEPT !.sigref[key] = @ - 1,
                   !.rmSent[key] = IF h.sigref[key] = 1 THEN @ + 1 ELSE @]

\* the (interface name, method name) pairs of a listener map
ListenerKeys(listeners) ==
    UNION { { <<n, m>> : m \in InterfaceMethods(listeners[n]) } : n \in DOMAIN listeners }

RECURSIVE ForEachKey(_, _, _)
\* applies AddMatchSignal or RemoveMatchSignal once for every key of the set; the keys of
\* one call are pairwise distinct, so the order of the range loop is immaterial
ForEachKey(h, keys, add) ==
    IF keys = {} THEN h
    ELSE LET k == CHOOSE x \in keys : TRUE
             h1 == IF add THEN AddMatchSignal(h, k[1], k[2])
                   ELSE RemoveMatchSignal(h, k[1], k[2])
         IN ForEachKey(h1, keys \ {k}, add)

hasActions_Always(h, o) == TRUE

hasActions(h, o) == h.objs[o].impl # NilImpl

hasChildren(h, o) == DOMAIN h.objs[o].objects # {}

LookupObject(h, o, name) ==
    IF name \in DOMAIN h.objs[o].objects THEN h.objs[o].objects[name] ELSE NilObj

RECURSIVE lookupObjectPath(_, _, _)
lookupObjectPath(h, o, path) ==
    IF Len(path) = 1 THEN LookupObject(h, o, path[1])
    ELSE LET obj == LookupObject(h, o, path[1]) IN
         IF obj = NilObj THEN NilObj
         ELSE lookupObjectPath(h, obj, Tail(path))

\* BusManager.LookupObject: the root path resolves to the manager itself
BusLookupObject(h, path) ==
    IF path = <<>> THEN Root ELSE lookupObjectPath(h, Root, path)

LookupInterface_OrListener(h, o, name) ==
    IF name \in DOMAIN h.objs[o].interfaces THEN h.objs[o].interfaces[name]
    ELSE IF name \in DOMAIN h.objs[o].listeners THEN h.objs[o].listeners[name]
    ELSE NoInterface

LookupInterface(h, o, name) ==
    IF name \in DOMAIN h.objs[o].interfaces THEN h.objs[o].interfaces[name] ELSE NoInterface

addInterface_KeepFirst(h, o, name, iface) ==
    [h EXCEPT !.objs[o].interfaces = IF name \in DOMAIN @ THEN @ ELSE MapPut(@, name, iface)]

addInterface(h, o, name, iface) ==
    [h EXCEPT !.objs[o].interfaces = MapPut(@, name, iface)]

addListener(h, o, name, iface) ==
    LET h1 == [h EXCEPT !.objs[o].listeners = MapPut(@, name, iface)] IN
    IF h.objs[o].bus
    THEN ForEachKey(h1, { <<name, m>> : m \in InterfaceMethods(iface) }, TRUE)
    ELSE h1

removeListeners_NoUnsub(h, o) ==
    [h EXCEPT !.objs[o].listeners = EmptyMap]

removeListeners(h, o) ==
    LET h1 == IF h.objs[o].bus
              THEN ForEachKey(h, ListenerKeys(h.objs[o].listeners), FALSE)
              ELSE h
    IN [h1 EXCEPT !.objs[o].listeners = EmptyMap]

newObjectFromImpl_NoImpl(h, name, impl, parent, bus) ==
    LET obj == [name |-> name, impl |-> NilImpl, bus |-> bus, parent |-> parent,
                interfaces |-> EmptyMap, listeners |-> EmptyMap,
                objects |-> EmptyMap]
        id == Len(h.objs) + 1
        h1 == [h EXCEPT !.objs = Append(@, obj)]
    IN addInterface(addInterface(h1, id, fdtIntrospectable, newIntrospection),
                    id, fdtPeer, newPeer)

newObjectFromImpl_NoPeer(h, name, impl, parent, bus) ==
    LET obj == [name |-> name, impl |-> impl, bus |-> bus, parent |-> parent,
                interfaces |-> EmptyMap, listeners |-> EmptyMap,
                objects |-> EmptyMap]
        id == Len(h.objs) + 1
        h1 == [h EXCEPT !.objs = Append(@, obj)]
    IN IF impl = NilImpl /\ parent # NilObj
       THEN addInterface(h1, id, fdtIntrospectable, newIntrospection)
       ELSE addInterface(addInterface(h1, id, fdtIntrospectable, newIntrospection),
                         id, fdtPeer, newPeer)

\* newObjectFromImpl; the new object's reference is Len(h.objs) + 1
newObjectFromImpl(h, name, impl, parent, bus) ==
    LET obj == [name |-> name, impl |-> impl, bus |-> bus, parent |-> parent,
                interfaces |-> EmptyMap, listeners |-> EmptyMap,
                objects |-> EmptyMap]
        id == Len(h.objs) + 1
        h1 == [h EXCEPT !.objs = Append(@, obj)]
    IN addInterface(addInterface(h1, id, fdtIntrospectable, newIntrospection),
                    id, fdtPeer, newPeer)

addObject_DropChildren(h, o, name, object) ==
    [h EXCEPT !.objs[o].objects = MapPut(@, name, object)]

addObject(h, o, name, object) ==
    LET objects == h.objs[o].objects
        h1 == IF name \in DOMAIN objects
              THEN [h EXCEPT !.objs[object].objects = h.objs[objects[name]].objects]
              ELSE h
    IN [h1 EXCEPT !.objs[o].objects = MapPut(objects, name, object)]

RECURSIVE newObject(_, _, _, _)
\* Object.newObject; returns the heap and the object created for the path
newObject(h, o, path, impl) ==
    LET name == path[1]
        id == Len(h.objs) + 1
    IN IF Len(path) = 1
       THEN [h |-> addObject(newObjectFromImpl(h, name, impl, o, h.objs[o].bus),
                             o, name, id),
             ret |-> id]
       ELSE LET obj == LookupObject(h, o, name) IN
            IF obj = NilObj
            THEN newObject(addObject(newObjectFromImpl(h, name, NilImpl, o, h.objs[o].bus),
                                     o, name, id),
                           id, Tail(path), impl)
            ELSE newObject(h, obj, Tail(path), impl)

RootNewObject_Install(h, path, impl) ==
    IF path = <<>>
    THEN [h |-> [h EXCEPT !.objs[Root].impl = impl], ret |-> Root]
    ELSE newObject(h, Root, path, impl)

\* Object.NewObject called on the root; the root path is the empty path
RootNewObject(h, path, impl) ==
    IF path = <<>> THEN [h |-> h, ret |-> Root]
    ELSE newObject(h, Root, path, impl)

rmChildObject_NoPlaceholder(h, o, name) ==
    LET objects == h.objs[o].objects IN
    IF name \in DOMAIN objects
    THEN [removeListeners(h, objects[name]) EXCEPT !.objs[o].objects = MapDel(objects, name)]
    ELSE h

rmChildObject_Skip(h, o, name) == h

RECURSIVE rmChildObject(_, _, _)
rmChildObject(h, o, name) ==
    LET objects == h.objs[o].objects
        h1 == IF name \in DOMAIN objects
              THEN LET obj == objects[name]
                       hr == removeListeners(h, obj)
                   IN IF hasChildren(hr, obj)
                      THEN LET id == Len(hr.objs) + 1
                               hn == newObjectFromImpl(hr, name, NilImpl, o, hr.objs[o].bus)
                               hc == [hn EXCEPT !.objs[id].objects = hr.objs[obj].objects]
                           IN [hc EXCEPT !.objs[o].objects = MapPut(objects, name, id)]
                      ELSE [hr EXCEPT !.objs[o].objects = MapDel(objects, name)]
              ELSE h
    IN IF ~hasActions(h1, o) /\ h1.objs[o].parent # NilObj
       THEN rmChildObject(h1, h1.objs[o].parent, h1.objs[o].name)
       ELSE h1

RECURSIVE delObject_NoLookup(_, _, _)
delObject_NoLookup(h, o, path) ==
    LET name == path[1] IN
    IF Len(path) = 1
    THEN rmChildObject(h, o, name)
    ELSE LET child == LookupObject(h, o, name) IN
         IF child # NilObj THEN delObject_NoLookup(h, child, Tail(path)) ELSE h

RECURSIVE delObject(_, _, _)
delObject(h, o, path) ==
    LET name == path[1] IN
    IF Len(path) = 1
    THEN IF LookupObject(h, o, name) # NilObj THEN rmChildObject(h, o, name) ELSE h
    ELSE LET child == LookupObject(h, o, name) IN
         IF child # NilObj THEN delObject(h, child, Tail(path)) ELSE h

\* Object.DeleteObject called on the root
RootDeleteObject(h, path) ==
    IF path = <<>> THEN h ELSE delObject(h, Root, path)

implementsIface_Always(h, o, name, typ) ==
    [h |-> addInterface(h, o, name, Interface(name, typ, h.objs[o].impl)),
     err |-> IF ObjectImplements(h.objs[o].impl, typ) THEN "nil" ELSE "DoesNotImplement"]

\* Object.ImplementsMap / ImplementsTable with implementsIface, for an
\* object that has an implementation
implementsIface(h, o, name, typ) ==
    IF ~ObjectImplements(h.objs[o].impl, typ)
    THEN [h |-> h, err |-> "DoesNotImplement"]
    ELSE [h |-> addInterface(h, o, name, Interface(name, typ, h.objs[o].impl)),
          err |-> "nil"]

receivesIface_Always(h, o, name, typ) ==
    [h |-> addListener(h, o, name, Interface(name, typ, h.objs[o].impl)),
     err |-> IF ObjectImplements(h.objs[o].impl, typ) THEN "nil" ELSE "DoesNotImplement"]

\* Object.Receives / ReceivesTable with receivesIface
receivesIface(h, o, name, typ) ==
    IF ~ObjectImplements(h.objs[o].impl, typ)
    THEN [h |-> h, err |-> "DoesNotImplement"]
    ELSE [h |-> addListener(h, o, name, Interface(name, typ, h.objs[o].impl)),
          err |-> "nil"]

InterfaceLookupMethod_Impl(intf, member) ==
    member \in DOMAIN ObjectMethods(intf.impl)

\* reflect.Interface.LookupMethod behind objtree Interface.LookupMethod: the
\* member is looked up in the binding's type, then in its implementation
InterfaceLookupMethod(intf, member) ==
    /\ member \in DOMAIN TypeMethods(intf.typ)
    /\ member \in DOMAIN ObjectMethods(intf.impl)

\* reflect.Value.Call accepts the values only if they are as many as the
\* function's parameters and each has the parameter's type; it panics otherwise
ArgsFit(sig, args) ==
    /\ Len(args) = Len(sig.in)
    /\ \A j \in 1..Len(args) : args[j] = sig.in[j]

\* reflect.Method.Call behind objtree Method.Call: the outcome of calling the
\* member of impl with args (the types of the values passed)
MethodCall(impl, member, args) ==
    IF ArgsFit(ObjectMethods(impl)[member], args)
    THEN [err |-> "nil", ran |-> TRUE]
    ELSE [err |-> "panic", ran |-> FALSE]

\* the declared return types of the methods the return convention is run on:
\* error is the interface type, MyErr a concrete type with an Error method
OutTypes == {"string", "error", "MyErr"}

\* Type.Implements(errtype)
ImplementsErr(t) == t \in {"error", "MyErr"}

\* the interface values reflect.Value.Interface() yields for a returned value
\* of the type: only a nil error is the nil interface value
OutValues(t) ==
    CASE t = "string" -> {"s"}
      [] t = "error" -> {"nil", "dead"}
      [] t = "MyErr" -> {"myerr"}

\* reflect Method.NumReturns for a method with the declared returns out
NumReturns(out) ==
    IF Len(out) >= 1 /\ ImplementsErr(out[Len(out)]) THEN Len(out) - 1 ELSE Len(out)

CallReturns_KeepSlot(out, ret) ==
    [ret |-> ret,
     err |-> IF Len(out) >= 1 /\ ImplementsErr(out[Len(out)]) THEN ret[Len(out)]
             ELSE "nil"]

\* reflect Method.Call after the function returned the values ret: what the
\* call hands back
CallReturns(out, ret) ==
    LET n == Len(out) IN
    IF n >= 1 /\ ImplementsErr(out[n])
    THEN IF ret[n] # "nil"
         THEN [ret |-> SubSeq(ret, 1, n - 1), err |-> ret[n]]
         ELSE [ret |-> SubSeq(ret, 1, n - 1), err |-> "nil"]
    ELSE [ret |-> ret, err |-> "nil"]

\* the declared parameter types of the methods arguments are decoded for;
\* sender is dbus.Sender
ParamTypes == {"string", "int", "sender"}

\* a value of a type
Value(t, v) == [t |-> t, v |-> v]

\* the values of an inbound message body
BodyValues == {Value("string", "s1"), Value("string", "s2"), Value("int", "1")}

\* the positions of the parameters that are decoded from the body
Decoded(params) ==
    SelectSeq([i \in 1..Len(params) |-> i], LAMBDA i : params[i] # "sender")

\* dbus.Store(body, decode...) for as many values as pointers: a value is
\* stored into a pointer to its own type and fails to convert to another
StoreFails(params, body) ==
    \E j \in 1..Len(body) : body[j].t # params[Decoded(params)[j]]

DecodeArguments_CountAll(params, sender, body) ==
    IF Len(params) # Len(body) \/ \E j \in 1..Len(body) : body[j].t # params[j]
    THEN [err |-> "InvalidArg", ret |-> <<>>]
    ELSE [err |-> "nil", ret |-> body]

\* objtree Method.DecodeArguments for a method with the declared parameters
\* params, the sender and the message body
DecodeArguments(params, sender, body) ==
    LET decode == Decoded(params) IN
    IF Len(decode) # Len(body)
    THEN [err |-> "InvalidArg", ret |-> <<>>]
    ELSE IF StoreFails(params, body)
         THEN [err |-> "InvalidArg", ret |-> <<>>]
         ELSE [err |-> "nil",
               ret |-> [i \in 1..Len(params) |->
                           IF params[i] = "sender" THEN Value("sender", sender)
                           ELSE body[CHOOSE j \in 1..Len(decode) : decode[j] = i]]]

\* Object.Call on the object o
ObjCall(h, o, ifaceName, method, args) ==
    LET iface == LookupInterface(h, o, ifaceName) IN
    IF iface = NoInterface
    THEN [err |-> "UnknownInterface", ran |-> FALSE]
    ELSE IF ~InterfaceLookupMethod(iface, method)
         THEN [err |-> "UnknownMethod", ran |-> FALSE]
         ELSE MethodCall(iface.impl, method, args)

\* BusManager.Call: LookupObject hands back the manager itself for the root
\* path, and the type assertion to an Object pointer panics on it
BusCall(h, path, ifaceName, method, args) ==
    LET object == BusLookupObject(h, path) IN
    IF object = NilObj
    THEN [err |-> "NoObject", ran |-> FALSE]
    ELSE IF path = <<>>
         THEN [err |-> "panic", ran |-> FALSE]
         ELSE ObjCall(h, object, ifaceName, method, args)

RECURSIVE ObjDeliverSignal(_, _, _, _), DeliverToChildren(_, _, _, _, _)
\* Object.DeliverSignal on the object o: the objects whose listener is
\* started, the object's own first, then (deferred) those of every child
ObjDeliverSignal(h, o, iface, member) ==
    LET listeners == h.objs[o].listeners
        own == IF iface \in DOMAIN listeners
                    /\ InterfaceLookupMethod(listeners[iface], member)
               THEN <<o>> ELSE <<>>
    IN own \o DeliverToChildren(h, h.objs[o].objects, DOMAIN h.objs[o].objects,
                                iface, member)

\* the range loop over a child map; Go leaves its order open, and the
\* listeners started run concurrently, so one order stands for all
DeliverToChildren(h, objects, names, iface, member) ==
    IF names = {} THEN <<>>
    ELSE LET n == CHOOSE x \in names : TRUE IN
         ObjDeliverSignal(h, objects[n], iface, member)
             \o DeliverToChildren(h, objects, names \ {n}, iface, member)

\* BusManager.DeliverSignal: the walk starts at the children of the root
BusDeliverSignal(h, iface, member) ==
    DeliverToChildren(h, h.objs[Root].objects, DOMAIN h.objs[Root].objects,
                      iface, member)

\* every name of the model in the order of Go's string comparison
NameOrder ==
    <<"CallMe", "GetMachineId", "Introspect", "Notify", "Ping", "X", "Y", "a", "b",
      fdtIntrospectable, fdtPeer>>

Rank(name) == CHOOSE i \in 1..Len(NameOrder) : NameOrder[i] = name

\* a.Name < b.Name
Less(a, b) == Rank(a.name) < Rank(b.name)

\* the orders in which a range loop yields the keys of a map: ascending,
\* descending and one that is neither
Shifts == {1, 12, 5}

RECURSIVE RangeOrder(_, _)
\* one order of a range loop over the keys: Go leaves the order open, and
\* the shift selects one of the orders (13 is a prime above every rank)
RangeOrder(keys, shift) ==
    IF keys = {} THEN <<>>
    ELSE LET pos(n) == (Rank(n) * shift) % 13
             k == CHOOSE n \in keys : \A m \in keys : pos(n) <= pos(m)
         IN <<k>> \o RangeOrder(keys \ {k}, shift)

SortByName_Unsorted(out) ==
    out

RECURSIVE SortByName(_)
\* sort.Sort(nodesByName(out)), interfacesByName, methodsByName
SortByName(out) ==
    IF out = <<>> THEN <<>>
    ELSE LET n == Len(out)
             s == SortByName(SubSeq(out, 1, n - 1))
             k == Cardinality({ i \in 1..(n - 1) : ~Less(out[n], s[i]) })
         IN SubSeq(s, 1, k) \o <<out[n]>> \o SubSeq(s, k + 1, n - 1)

\* Method.Introspect: the name and the arguments; of the NumReturns returns
\* the last one is hidden when it implements error
MethodIntrospect(intf, name) ==
    LET sig == TypeMethods(intf.typ)[name]
        num == NumReturns(sig.out)
    IN [name |-> name, in |-> sig.in,
        out |-> IF num > 0 /\ ImplementsErr(sig.out[num]) THEN SubSeq(sig.out, 1, num - 1)
                ELSE SubSeq(sig.out, 1, num)]

\* Interface.Introspect
InterfaceIntrospect(intf, shift) ==
    LET names == RangeOrder(InterfaceMethods(intf), shift) IN
    [name |-> intf.name,
     methods |-> SortByName([i \in 1..Len(names) |-> MethodIntrospect(intf, names[i])])]

RECURSIVE Introspect_Always(_, _, _)
Introspect_Always(h, o, shift) ==
    LET children == RangeOrder(DOMAIN h.objs[o].objects, shift)
        ifaces == RangeOrder(DOMAIN h.objs[o].interfaces, shift)
    IN [name |-> h.objs[o].name,
        interfaces |->
            SortByName([i \in 1..Len(ifaces) |->
                InterfaceIntrospect(h.objs[o].interfaces[ifaces[i]], shift)]),
        children |->
            SortByName([i \in 1..Len(children) |->
                Introspect_Always(h, h.objs[o].objects[children[i]], shift)])]

RECURSIVE Introspect(_, _, _)
\* Object.Introspect
Introspect(h, o, shift) ==
    LET children == RangeOrder(DOMAIN h.objs[o].objects, shift)
        ifaces == RangeOrder(DOMAIN h.objs[o].interfaces, shift)
    IN [name |-> h.objs[o].name,
        interfaces |->
            IF ~hasActions(h, o) THEN <<>>
            ELSE SortByName([i \in 1..Len(ifaces) |->
                     InterfaceIntrospect(h.objs[o].interfaces[ifaces[i]], shift)]),
        children |->
            SortByName([i \in 1..Len(children) |->
                Introspect(h, h.objs[o].objects[children[i]], shift)])]

\* the goroutine started for the k-th listener matched by the signal sig
Task(sig, k, o, impl, iface, member, body) ==
    [sig |-> sig, k |-> k, o |-> o, impl |-> impl, name |-> iface,
     member |-> member, body |-> body, st |-> "spawned"]

Runnable_Serial(t) ==
    /\ t.st = "spawned"
    /\ \A u \in tasks : u.st # "blocked"

\* a goroutine that was started and has not yet called its method runs
\* whatever the other goroutines do
Runnable(t) ==
    t.st = "spawned"

(***************************************************************************)
(* State machine                                                           *)
(***************************************************************************)
RECURSIVE PathsOfLen(_, _)
PathsOfLen(S, k) ==
    IF k = 0 THEN {<<>>}
    ELSE { <<s>> \o p : s \in S, p \in PathsOfLen(S, k - 1) }

\* every path of at most d segments, the root path <<>> included
PathsUpTo(S, d) == UNION { PathsOfLen(S, k) : k \in 0..d }

\* the paths whose segments before the last are all "a"
TreePaths(d) == { p \in PathsUpTo(Names, d) : \A k \in 1..(Len(p) - 1) : p[k] = "a" }

Paths == TreePaths(MaxDepth)

DeepPaths == PathsUpTo(DeepNames, DeepDepth)

BindPaths == PathsUpTo(DeepNames, BindDepth) \ {<<>>}

\* the signatures, method tables and property tables the matcher is run on
MatchSigs ==
    { Sig(i, o) : i \in {<<>>, <<"string">>},
                  o \in {<<>>, <<"string">>, <<"string", "error">>, <<"string", "bool">>} }

MatchMethods ==
    UNION { [d -> MatchSigs] : d \in SUBSET {"M", "N"} }

MatchProperties ==
    UNION { [d -> {"int", "string"}] : d \in SUBSET {"P"} }

MatchDescs == { Desc(m, p) : m \in MatchMethods, p \in MatchProperties }

SigPaths == {<<"a">>, <<"b">>, <<"a", "a">>}

\* the signals delivered: interface, member, body (the types of its values)
Signals == {<<"X", "Notify", <<"string">>>>, <<"X", "Notify", <<>>>>,
            <<"X", "CallMe", <<>>>>, <<"Y", "Notify", <<"string">>>>}

CallPaths == {<<>>, <<"a">>, <<"b">>}

\* the (interface, member) pairs called
CallTargets == {<<"X", "CallMe">>, <<"X", "Notify">>, <<"Y", "Notify">>,
                <<fdtPeer, "Ping">>}

\* the argument lists passed, as the types of their values
CallArgs == {<<>>, <<"string">>}

cur == Heap(objs, sigref, addSent, rmSent)

Install(h) ==
    /\ objs' = h.objs
    /\ sigref' = h.sigref
    /\ addSent' = h.addSent
    /\ rmSent' = h.rmSent

\* the last call: its arguments, its result, and what it found before it ran
\* (fresh: the root had no child; hit: the path resolved / the name was bound)
\* ran: the call ran an operation body
NoCall == [op |-> "none", path |-> <<>>, o |-> NilObj, name |-> "", arg |-> 0,
           ret |-> NilObj, err |-> "nil", fresh |-> FALSE, hit |-> FALSE,
           ran |-> FALSE]

\* no matcher query
NoMatch == [R |-> NilDesc, C |-> NilDesc, ret |-> FALSE, done |-> FALSE]

\* no query of a pure function
NoProbe == [op |-> "none"]

\* no property under test
NoProp == [type |-> "", value |-> "", set |-> "", w |-> 0, r |-> {}]

\* no thread runs, no lock is held
Idle ==
    /\ thr = <<>>
    /\ lk = EmptyMap
    /\ hist = EmptyMap
    /\ prop = NoProp

\* NewAnonymousBusManager: a root without implementation, attached to the bus
Init ==
    /\ objs = newObjectFromImpl(Heap(<<>>, EmptyMap, EmptyMap, EmptyMap),
                                "", NilImpl, NilObj, TRUE).objs
    /\ sigref = [k \in SigKeys |-> 0]
    /\ addSent = [k \in SigKeys |-> 0]
    /\ rmSent = [k \in SigKeys |-> 0]
    /\ panicked = FALSE
    /\ last = NoCall
    /\ calls = 0
    /\ tasks = {}
    /\ gone = {}
    /\ match = NoMatch
    /\ probe = NoProbe
    /\ Idle

\* one more call on a process that has not panicked
Call(limit) ==
    /\ ~panicked
    /\ calls < limit
    /\ calls' = calls + 1

\* root.NewObject(path, impl)
NewObject(path, impl, limit) ==
    /\ Call(limit)
    /\ LET r == RootNewObject(cur, path, impl) IN
       /\ Install(r.h)
       /\ last' = [NoCall EXCEPT !.op = "NewObject", !.path = path, !.o = Root,
                                 !.arg = impl, !.ret = r.ret,
                                 !.fresh = ~hasChildren(cur, Root),
                                 !.hit = BusLookupObject(cur, path) # NilObj]
    /\ UNCHANGED <<panicked, tasks, gone, match, probe, conc>>

\* root.DeleteObject(path)
DeleteObject(path, limit) ==
    /\ Call(limit)
    /\ Install(RootDeleteObject(cur, path))
    /\ last' = [NoCall EXCEPT !.op = "DeleteObject", !.path = path, !.o = Root,
                              !.hit = BusLookupObject(cur, path) # NilObj]
    /\ gone' = gone \cup ({BusLookupObject(cur, path)} \ {NilObj, Root})
    /\ UNCHANGED <<panicked, tasks, match, probe, conc>>

\* a call that dereferences the nil implementation of the object o
NilDeref(op, path, o, name, typ) ==
    /\ panicked' = TRUE
    /\ UNCHANGED <<objs, sigref, addSent, rmSent, tasks, gone, match, probe, conc>>
    /\ last' = [NoCall EXCEPT !.op = op, !.path = path, !.o = o,
                              !.name = name, !.arg = typ, !.err = "panic"]

\* obj.Implements(name, required) on the object found at path
Implements(path, name, typ, limit) ==
    /\ Call(limit)
    /\ LET o == BusLookupObject(cur, path) IN
       /\ o # NilObj
       /\ IF objs[o].impl = NilImpl
          THEN NilDeref("Implements", path, o, name, typ)
          ELSE LET r == implementsIface(cur, o, name, typ) IN
               /\ Install(r.h)
               /\ last' = [NoCall EXCEPT !.op = "Implements", !.path = path, !.o = o,
                                         !.name = name, !.arg = typ, !.err = r.err,
                                         !.hit = name \in DOMAIN objs[o].interfaces]
               /\ UNCHANGED <<panicked, tasks, gone, match, probe, conc>>

\* obj.Receives(name, required) on the object found at path
Receives(path, name, typ, limit) ==
    /\ Call(limit)
    /\ LET o == BusLookupObject(cur, path) IN
       /\ o # NilObj
       /\ IF objs[o].impl = NilImpl
          THEN NilDeref("Receives", path, o, name, typ)
          ELSE LET r == receivesIface(cur, o, name, typ) IN
               /\ Install(r.h)
               /\ last' = [NoCall EXCEPT !.op = "Receives", !.path = path, !.o = o,
                                         !.name = name, !.arg = typ, !.err = r.err,
                                         !.hit = name \in DOMAIN objs[o].listeners]
               /\ UNCHANGED <<panicked, tasks, gone, match, probe, conc>>

\* the outcome r of a call that changes no tree state
Outcome(op, path, o, name, member, args, r) ==
    /\ panicked' = (r.err = "panic")
    /\ UNCHANGED <<objs, sigref, addSent, rmSent, tasks, gone, match, probe, conc>>
    /\ last' = [NoCall EXCEPT !.op = op, !.path = path, !.o = o, !.name = name,
                              !.arg = <<member, args>>, !.err = r.err,
                              !.ran = r.ran]

\* obj.Call(ifaceName, method, args...) on the object found at path
ObjectCall(path, ifaceName, method, args, limit) ==
    /\ Call(limit)
    /\ LET o == BusLookupObject(cur, path) IN
       /\ o # NilObj
       /\ Outcome("Call", path, o, ifaceName, method, args,
                  ObjCall(cur, o, ifaceName, method, args))

\* mgr.Call(path, ifaceName, method, args...)
BusManagerCall(path, ifaceName, method, args, limit) ==
    /\ Call(limit)
    /\ Outcome("BusCall", path, BusLookupObject(cur, path), ifaceName, method, args,
               BusCall(cur, path, ifaceName, method, args))

\* registrations, deletions and listeners on a tree of depth MaxDepth
Next ==
    \/ \E p \in Paths, i \in UserImpls : NewObject(p, i, MaxCalls)
    \/ \E p \in Paths : DeleteObject(p, MaxCalls)
    \/ \E p \in Paths \ {<<>>} : Receives(p, "X", TypeNotify, MaxCalls)

Spec == Init /\ [][Next]_vars

\* registrations and deletions on a single-name tree of depth DeepDepth
NextDeep ==
    \/ \E p \in DeepPaths, i \in UserImpls : NewObject(p, i, MaxCalls)
    \/ \E p \in DeepPaths : DeleteObject(p, MaxCalls)

SpecDeep == Init /\ [][NextDeep]_vars

\* bindings on a small tree
NextBind ==
    \/ \E p \in BindPaths, i \in UserImpls : NewObject(p, i, BindCalls)
    \/ \E p \in BindPaths : DeleteObject(p, BindCalls)
    \/ \E p \in BindPaths, n \in CapNames, t \in UserTypes : Implements(p, n, t, BindCalls)
    \/ \E p \in BindPaths, n \in CapNames : Receives(p, n, TypeNotify, BindCalls)

SpecBind == Init /\ [][NextBind]_vars

\* mgr.DeliverSignal(iface, member, signal) with signal.Body = body
DeliverSignal(iface, member, body, limit) ==
    /\ Call(limit)
    /\ LET matched == BusDeliverSignal(cur, iface, member) IN
       /\ tasks' = tasks \cup
              { Task(calls + 1, k, matched[k], objs[matched[k]].impl, iface, member, body) :
                    k \in 1..Len(matched) }
       /\ last' = [NoCall EXCEPT !.op = "DeliverSignal", !.o = Root, !.name = iface,
                                 !.arg = <<member, body>>, !.ret = Len(matched)]
    /\ UNCHANGED <<objs, sigref, addSent, rmSent, panicked, gone, match, probe, conc>>

\* the goroutine of DeliverSignal: method.Call(signal.Body...).  The call
\* panics in reflect when the body does not fit, and nothing recovers a panic
\* of this goroutine, so the process ends; else the listener body runs and
\* either returns or never does
Listener(sig, k) ==
    /\ ~panicked
    /\ \E t \in tasks :
          /\ t.sig = sig /\ t.k = k
          /\ Runnable(t)
          /\ LET r == MethodCall(t.impl, t.member, t.body) IN
             IF r.err = "panic"
             THEN /\ tasks' = (tasks \ {t}) \cup {[t EXCEPT !.st = "panic"]}
                  /\ panicked' = TRUE
             ELSE /\ \E st \in {"done", "blocked"} :
                        tasks' = (tasks \ {t}) \cup {[t EXCEPT !.st = st]}
                  /\ UNCHANGED panicked
    /\ UNCHANGED <<objs, sigref, addSent, rmSent, last, calls, gone, match, probe, conc>>

RECURSIVE Setup(_, _)
\* the heap after NewObject(p, i) and Receives(p, "X", Notify) for each
\* <<p, i>> of steps, in order (a Receives the object does not satisfy
\* returns its error and changes nothing)
Setup(h, steps) ==
    IF steps = <<>> THEN h
    ELSE LET r == RootNewObject(h, steps[1][1], steps[1][2])
         IN Setup(receivesIface(r.h, r.ret, "X", TypeNotify).h, Tail(steps))

\* a bus manager on which two objects were registered as listeners
InitSig ==
    /\ \E p1 \in SigPaths, p2 \in SigPaths, i1 \in UserImpls, i2 \in UserImpls :
          LET h == Setup(Heap(newObjectFromImpl(Heap(<<>>, EmptyMap, EmptyMap, EmptyMap),
                                                "", NilImpl, NilObj, TRUE).objs,
                              [k \in SigKeys |-> 0], [k \in SigKeys |-> 0],
                              [k \in SigKeys |-> 0]),
                         <<<<p1, i1>>, <<p2, i2>>>>)
          IN /\ objs = h.objs
             /\ sigref = h.sigref
             /\ addSent = h.addSent
             /\ rmSent = h.rmSent
    /\ panicked = FALSE
    /\ last = NoCall
    /\ calls = 0
    /\ tasks = {}
    /\ gone = {}
    /\ match = NoMatch
    /\ probe = NoProbe
    /\ Idle

\* signals, listeners and deletions
NextSig ==
    \/ \E p \in SigPaths, t \in {TypeNotify, TypeCallMeArg} : Receives(p, "X", t, SigCalls)
    \/ \E p \in SigPaths : DeleteObject(p, SigCalls)
    \/ \E s \in Signals : DeliverSignal(s[1], s[2], s[3], SigCalls)
    \/ \E g \in 1..SigCalls, k \in 1..Cardinality(SigPaths) : Listener(g, k)

SpecSig == InitSig /\ [][NextSig]_vars

\* a listener run starts with up to two listeners registered on distinct paths
InitRef ==
    /\ \E p1 \in SigPaths, p2 \in SigPaths, i2 \in UserImpls :
          /\ p1 # p2
          /\ LET h == Setup(Heap(newObjectFromImpl(Heap(<<>>, EmptyMap, EmptyMap, EmptyMap),
                                                   "", NilImpl, NilObj, TRUE).objs,
                                 [k \in SigKeys |-> 0], [k \in SigKeys |-> 0],
                                 [k \in SigKeys |-> 0]),
                            <<<<p1, ImplTable2>>, <<p2, i2>>>>)
             IN /\ objs = h.objs
                /\ sigref = h.sigref
                /\ addSent = h.addSent
                /\ rmSent = h.rmSent
    /\ panicked = FALSE
    /\ last = NoCall
    /\ calls = 0
    /\ tasks = {}
    /\ gone = {}
    /\ match = NoMatch
    /\ probe = NoProbe
    /\ Idle

\* root.NewObject(path, impl) at a path that holds no listening object
Register(path, impl, limit) ==
    /\ LET o == BusLookupObject(cur, path) IN
          o # NilObj => objs[o].listeners = EmptyMap
    /\ NewObject(path, impl, limit)

\* the first obj.Receives(name, required) of the object found at path
ListenOnce(path, name, typ, limit) ==
    /\ LET o == BusLookupObject(cur, path) IN
          o # NilObj => name \notin DOMAIN objs[o].listeners
    /\ Receives(path, name, typ, limit)

\* listeners registered once each and removed by deleting their objects
NextRef ==
    \/ \E p \in SigPaths : Register(p, ImplTable2, RefCalls)
    \/ \E p \in SigPaths : ListenOnce(p, "X", TypeNotify, RefCalls)
    \/ \E p \in SigPaths : DeleteObject(p, RefCalls)

SpecRef == InitRef /\ [][NextRef]_vars

\* obj.Introspect() on the object found at path
IntrospectCall(path, shift, limit) ==
    /\ Call(limit)
    /\ LET o == BusLookupObject(cur, path) IN
       /\ o # NilObj
       /\ probe' = [op |-> "Introspect", node |-> Introspect(cur, o, shift)]
       /\ last' = [NoCall EXCEPT !.op = "Introspect", !.path = path, !.o = o,
                                 !.arg = shift]
    /\ UNCHANGED <<objs, sigref, addSent, rmSent, panicked, tasks, gone, match, conc>>

\* registrations, bindings, deletions and introspection
NextIntro ==
    \/ \E p \in SigPaths, i \in UserImpls : NewObject(p, i, IntroCalls)
    \/ \E p \in SigPaths : DeleteObject(p, IntroCalls)
    \/ \E p \in SigPaths, n \in CapNames, t \in {TypeCallMe, TypeNotify} :
          Implements(p, n, t, IntroCalls)
    \/ \E p \in SigPaths \cup {<<>>}, s \in Shifts : IntrospectCall(p, s, IntroCalls)

SpecIntro == Init /\ [][NextIntro]_vars

\* a matcher query: a required descriptor, nil included, and a candidate
InitMatch ==
    /\ objs = newObjectFromImpl(Heap(<<>>, EmptyMap, EmptyMap, EmptyMap),
                                "", NilImpl, NilObj, TRUE).objs
    /\ sigref = [k \in SigKeys |-> 0]
    /\ addSent = [k \in SigKeys |-> 0]
    /\ rmSent = [k \in SigKeys |-> 0]
    /\ panicked = FALSE
    /\ last = NoCall
    /\ calls = 0
    /\ tasks = {}
    /\ gone = {}
    /\ match \in { [R |-> r, C |-> c, ret |-> FALSE, done |-> FALSE] :
                      r \in MatchDescs \cup {NilDesc}, c \in MatchDescs }
    /\ probe = NoProbe
    /\ Idle

\* candidate.Implements(required)
Satisfies ==
    /\ ~match.done
    /\ match' = [match EXCEPT !.ret = ReflectImplements(match.R, match.C),
                              !.done = TRUE]
    /\ UNCHANGED <<objs, sigref, addSent, rmSent, panicked, last, calls, tasks, gone,
                   probe, conc>>

NextMatch == Satisfies

SpecMatch == InitMatch /\ [][NextMatch]_vars

\* the sequences of at most n elements of S
SeqsUpTo(S, n) == UNION { [1..k -> S] : k \in 0..n }

\* a method with declared returns out whose body returns the values vals
InitMethod ==
    /\ objs = newObjectFromImpl(Heap(<<>>, EmptyMap, EmptyMap, EmptyMap),
                                "", NilImpl, NilObj, TRUE).objs
    /\ sigref = [k \in SigKeys |-> 0]
    /\ addSent = [k \in SigKeys |-> 0]
    /\ rmSent = [k \in SigKeys |-> 0]
    /\ panicked = FALSE
    /\ last = NoCall
    /\ calls = 0
    /\ tasks = {}
    /\ gone = {}
    /\ match = NoMatch
    /\ \E out \in SeqsUpTo(OutTypes, MaxOut) :
          \E vals \in [1..Len(out) -> UNION { OutValues(t) : t \in OutTypes }] :
             /\ \A j \in 1..Len(out) : vals[j] \in OutValues(out[j])
             /\ probe = [op |-> "Call", out |-> out, vals |-> vals, done |-> FALSE,
                         ret |-> <<>>, err |-> "nil", num |-> 0]
    /\ Idle

\* method.Call(args...) and method.NumReturns()
CallMethod ==
    /\ probe.op = "Call" /\ ~probe.done
    /\ LET r == CallReturns(probe.out, probe.vals) IN
       probe' = [probe EXCEPT !.done = TRUE, !.ret = r.ret, !.err = r.err,
                              !.num = NumReturns(probe.out)]
    /\ UNCHANGED <<objs, sigref, addSent, rmSent, panicked, last, calls, tasks, gone,
                   match, conc>>

NextMethod == CallMethod

SpecMethod == InitMethod /\ [][NextMethod]_vars

\* a method with declared parameters params and an inbound message
InitDecode ==
    /\ objs = newObjectFromImpl(Heap(<<>>, EmptyMap, EmptyMap, EmptyMap),
                                "", NilImpl, NilObj, TRUE).objs
    /\ sigref = [k \in SigKeys |-> 0]
    /\ addSent = [k \in SigKeys |-> 0]
    /\ rmSent = [k \in SigKeys |-> 0]
    /\ panicked = FALSE
    /\ last = NoCall
    /\ calls = 0
    /\ tasks = {}
    /\ gone = {}
    /\ match = NoMatch
    /\ \E params \in SeqsUpTo(ParamTypes, MaxArgs), body \in SeqsUpTo(BodyValues, MaxArgs) :
          probe = [op |-> "Decode", params |-> params, sender |-> ":1.7", body |-> body,
                   done |-> FALSE, ret |-> <<>>, err |-> "nil"]
    /\ Idle

\* method.DecodeArguments(conn, sender, msg, args)
Decode ==
    /\ probe.op = "Decode" /\ ~probe.done
    /\ LET r == DecodeArguments(probe.params, probe.sender, probe.body) IN
       probe' = [probe EXCEPT !.done = TRUE, !.ret = r.ret, !.err = r.err]
    /\ UNCHANGED <<objs, sigref, addSent, rmSent, panicked, last, calls, tasks, gone,
                   match, conc>>

NextDecode == Decode

SpecDecode == InitDecode /\ [][NextDecode]_vars

\* the threads of a concurrent run
Threads == {1, 2}

\* the values handed to Property.Set
PropValues == BodyValues \cup {Value("int", "2")}

\* a field written half way: the stores of a value are not one memory access
Torn(t) == Value(t, "torn")

\* a thread that has made no call
NoThread == [op |-> "none", pc |-> "idle"]

\* a Property made by NewProperty for a field of a declared type, nobody
\* holding its RWMutex; set is the value of the last Set that stored
InitProp ==
    /\ objs = newObjectFromImpl(Heap(<<>>, EmptyMap, EmptyMap, EmptyMap),
                                "", NilImpl, NilObj, TRUE).objs
    /\ sigref = [k \in SigKeys |-> 0]
    /\ addSent = [k \in SigKeys |-> 0]
    /\ rmSent = [k \in SigKeys |-> 0]
    /\ panicked = FALSE
    /\ last = NoCall
    /\ calls = 0
    /\ tasks = {}
    /\ gone = {}
    /\ match = NoMatch
    /\ probe = NoProbe
    /\ thr = [t \in Threads |-> NoThread]
    /\ lk = EmptyMap
    /\ hist = EmptyMap
    /\ \E v \in {Value("string", "s1"), Value("int", "1")} :
          prop = [type |-> v.t, value |-> v, set |-> v, w |-> 0, r |-> {}]

CanRLock_Always == TRUE

\* RWMutex.RLock returns when no writer holds the mutex
CanRLock ==
    prop.w = 0

\* RWMutex.Lock returns when neither a writer nor a reader holds the mutex
CanLock == prop.w = 0 /\ prop.r = {}

\* p.Set(v): p.mu.Lock()
SetLock(t, v) ==
    /\ thr[t].pc = "idle"
    /\ calls < PropCalls
    /\ calls' = calls + 1
    /\ CanLock
    /\ prop' = [prop EXCEPT !.w = t]
    /\ thr' = [thr EXCEPT ![t] = [op |-> "Set", pc |-> "check", arg |-> v,
                                  ret |-> v, err |-> "nil"]]
    /\ UNCHANGED <<objs, sigref, addSent, rmSent, panicked, last, tasks, gone,
                   match, probe, lk, hist>>

\* p.Set(v): the type check, then the first store of p.value.Set
SetCheck(t) ==
    /\ thr[t].pc = "check"
    /\ IF thr[t].arg.t # prop.type
       THEN /\ thr' = [thr EXCEPT ![t].pc = "unlock", ![t].err = "TypeMismatch"]
            /\ UNCHANGED prop
       ELSE /\ thr' = [thr EXCEPT ![t].pc = "write"]
            /\ prop' = [prop EXCEPT !.value = Torn(prop.type)]
    /\ UNCHANGED <<objs, sigref, addSent, rmSent, panicked, last, calls, tasks, gone,
                   match, probe, lk, hist>>

\* p.Set(v): the last store of p.value.Set
SetWrite(t) ==
    /\ thr[t].pc = "write"
    /\ prop' = [prop EXCEPT !.value = thr[t].arg, !.set = thr[t].arg]
    /\ thr' = [thr EXCEPT ![t].pc = "unlock"]
    /\ UNCHANGED <<objs, sigref, addSent, rmSent, panicked, last, calls, tasks, gone,
                   match, probe, lk, hist>>

\* p.Set(v): the deferred p.mu.Unlock() and the return
SetUnlock(t) ==
    /\ thr[t].op = "Set" /\ thr[t].pc = "unlock"
    /\ prop' = [prop EXCEPT !.w = 0]
    /\ thr' = [thr EXCEPT ![t].pc = "idle"]
    /\ UNCHANGED <<objs, sigref, addSent, rmSent, panicked, last, calls, tasks, gone,
                   match, probe, lk, hist>>

\* p.Get(): p.mu.RLock()
GetRLock(t) ==
    /\ thr[t].pc = "idle"
    /\ calls < PropCalls
    /\ calls' = calls + 1
    /\ CanRLock
    /\ prop' = [prop EXCEPT !.r = @ \cup {t}]
    /\ thr' = [thr EXCEPT ![t] = [op |-> "Get", pc |-> "read", arg |-> prop.value,
                                  ret |-> prop.value, err |-> "nil"]]
    /\ UNCHANGED <<objs, sigref, addSent, rmSent, panicked, last, tasks, gone,
                   match, probe, lk, hist>>

\* p.Get(): p.value.Interface()
GetRead(t) ==
    /\ thr[t].pc = "read"
    /\ thr' = [thr EXCEPT ![t].pc = "runlock", ![t].ret = prop.value]
    /\ UNCHANGED <<objs, sigref, addSent, rmSent, panicked, last, calls, tasks, gone,
                   match, probe, lk, hist, prop>>

\* p.Get(): the deferred p.mu.RUnlock() and the return
GetRUnlock(t) ==
    /\ thr[t].pc = "runlock"
    /\ prop' = [prop EXCEPT !.r = @ \ {t}]
    /\ thr' = [thr EXCEPT ![t].pc = "idle"]
    /\ UNCHANGED <<objs, sigref, addSent, rmSent, panicked, last, calls, tasks, gone,
                   match, probe, lk, hist>>

\* concurrent Get and Set calls on one Property
NextProp ==
    \/ \E t \in Threads, v \in PropValues : SetLock(t, v)
    \/ \E t \in Threads : SetCheck(t)
    \/ \E t \in Threads : SetWrite(t)
    \/ \E t \in Threads : SetUnlock(t)
    \/ \E t \in Threads : GetRLock(t)
    \/ \E t \in Threads : GetRead(t)
    \/ \E t \in Threads : GetRUnlock(t)

SpecProp == InitProp /\ [][NextProp]_vars

(***************************************************************************)
(* Concurrent calls: each call is a sequence of steps of its thread.  A    *)
(* multiWriterValue is read by one atomic Load and written by Update,      *)
(* which takes the write lock, loads, runs its function on a fresh map,    *)
(* stores and unlocks.  lk maps every held lock to the thread holding it;  *)
(* hist maps every field to the maps it has held since it was created.     *)
(***************************************************************************)
\* the mutex of mgrState
Mu == <<0, "mu">>

Fields == {"objects", "interfaces", "listeners"}

Load_Dirty(h, o, f) ==
    IF \E t \in Threads : thr[t].cell = <<o, f>> /\ thr[t].stage \in {"copy", "fn"}
    THEN thr[CHOOSE t \in Threads :
                 thr[t].cell = <<o, f>> /\ thr[t].stage \in {"copy", "fn"}].build
    ELSE h.objs[o][f]

\* multiWriterValue.Load of the field f of the object o
Load(h, o, f) ==
    h.objs[o][f]

\* a Load a thread has made: the map it got, and whether an Update of the
\* field was in progress
Read(o, f) == [o |-> o, f |-> f, m |-> Load(cur, o, f), busy |-> <<o, f>> \in DOMAIN lk]

CanLock_Always(l) == TRUE

\* Mutex.Lock returns when no thread holds the mutex
CanLockMutex(l) ==
    l \notin DOMAIN lk

CallLocks_Interfaces(o) == {<<o, "interfaces">>}

\* the locks Object.Call holds while the method it found runs
CallLocks(o) ==
    {}

\* the holder of a mutex that was copied while it was held: no thread will
\* unlock the copy
NoHolder == 0

CopyMutex_Fresh(from, to) == {lk}

\* a struct assignment copies the mutex of the field with the state it is
\* read in; the read is not synchronised with a thread that holds the mutex
CopyMutex(from, to) ==
    IF from \in DOMAIN lk THEN {lk, MapPut(lk, to, NoHolder)} ELSE {lk}

RECURSIVE Values_Twice(_, _)
Values_Twice(m, keys) ==
    IF keys = {} THEN <<>>
    ELSE LET k == CHOOSE x \in keys : TRUE IN
         <<m[k], m[k]>> \o Values_Twice(m, keys \ {k})

RECURSIVE Values(_, _)
\* the values of a map under the keys of the set, as the range loop meets them
Values(m, keys) ==
    IF keys = {} THEN <<>>
    ELSE LET k == CHOOSE x \in keys : TRUE IN <<m[k]>> \o Values(m, keys \ {k})

\* no update in progress
NoCell == <<0, "">>

\* the thread t with the call op at the step pc.stage
Thread(t, op, pc, stage, o, name, arg, node, cell) ==
    [op |-> op, pc |-> pc, stage |-> stage, o |-> o, name |-> name, arg |-> arg,
     node |-> node, cell |-> cell, snap |-> EmptyMap, build |-> EmptyMap,
     keys |-> {}, rd |-> {}, err |-> "nil", path |-> <<>>, req |-> <<>>,
     todo |-> <<>>, inbody |-> thr[t].pc = "body",
     during |-> { u \in Threads \ {t} : thr[u].pc # "idle" }]

\* a thread between calls
IdleThread ==
    [op |-> "none", pc |-> "idle", stage |-> "ret", o |-> NilObj, name |-> "",
     arg |-> 0, node |-> NilObj, cell |-> NoCell, snap |-> EmptyMap,
     build |-> EmptyMap, keys |-> {}, rd |-> {}, err |-> "nil", path |-> <<>>,
     req |-> <<>>, todo |-> <<>>, inbody |-> FALSE, during |-> {}]

\* the thread t starts the call rec: every call in progress overlaps it
Begin(t, rec) ==
    thr' = [u \in Threads |->
               IF u = t THEN rec
               ELSE IF thr[u].pc # "idle" THEN [thr[u] EXCEPT !.during = @ \cup {t}]
               ELSE thr[u]]

\* the thread t, between calls or inside a method body, makes one more call
Start(t) ==
    /\ ~panicked
    /\ calls < ConcCalls
    /\ calls' = calls + 1
    /\ thr[t].pc \in {"idle", "body"}

\* where the thread goes when its call returns
Return(t) == IF thr[t].inbody THEN "body" ELSE "idle"

\* the thread record of a call that returned at once
Returned(t, op, o, name, arg, err, rd) ==
    [Thread(t, op, IF thr[t].pc = "body" THEN "body" ELSE "idle", "ret",
            o, name, arg, NilObj, NoCell) EXCEPT !.err = err, !.rd = rd]

\* the fields of the objects created by the step from h to h1
NewCells(h, h1) ==
    [c \in { <<o, f>> : o \in (Len(h.objs) + 1)..Len(h1.objs), f \in Fields } |->
        {h1.objs[c[1]][c[2]]}]

\* a bus manager with the object a, which has an exported binding and,
\* when its implementation allows, a listener
InitConc ==
    /\ \E i \in UserImpls :
          LET h0 == Heap(newObjectFromImpl(Heap(<<>>, EmptyMap, EmptyMap, EmptyMap),
                                           "", NilImpl, NilObj, TRUE).objs,
                         [k \in SigKeys |-> 0], [k \in SigKeys |-> 0],
                         [k \in SigKeys |-> 0])
              h1 == Setup(h0, <<<<<<"a">>, i>>>>)
              h == implementsIface(h1, LookupObject(h1, Root, "a"), "X", TypeCallMe).h
          IN /\ objs = h.objs
             /\ sigref = h.sigref
             /\ addSent = h.addSent
             /\ rmSent = h.rmSent
             /\ hist = [c \in { <<o, f>> : o \in 1..Len(h.objs), f \in Fields } |->
                           {h.objs[c[1]][c[2]]}]
    /\ panicked = FALSE
    /\ last = NoCall
    /\ calls = 0
    /\ tasks = {}
    /\ gone = {}
    /\ match = NoMatch
    /\ probe = NoProbe
    /\ thr = [t \in Threads |-> IdleThread]
    /\ lk = EmptyMap
    /\ prop = NoProp

\* root.NewObject("/c", impl): newObjectFromImpl, then addObject
NewObjectStart(t, c, impl) ==
    /\ Start(t)
    /\ LET h == newObjectFromImpl(cur, c, impl, Root, TRUE) IN
       /\ objs' = h.objs
       /\ hist' = NewCells(cur, h) @@ hist
       /\ Begin(t, Thread(t, "NewObject", "addObject", "lock", Root, c, impl,
                          Len(h.objs), <<Root, "objects">>))
    /\ UNCHANGED <<sigref, addSent, rmSent, panicked, last, tasks, gone, match, probe,
                   lk, prop>>

\* root.DeleteObject("/c"): LookupObject, then rmChildObject
DeleteObjectStart(t, c) ==
    /\ Start(t)
    /\ IF LookupObject(cur, Root, c) # NilObj
       THEN Begin(t, [Thread(t, "DeleteObject", "rmChildObject", "lock", Root, c, 0,
                             NilObj, <<Root, "objects">>)
                         EXCEPT !.rd = {Read(Root, "objects")}])
       ELSE Begin(t, Returned(t, "DeleteObject", Root, c, 0, "nil",
                              {Read(Root, "objects")}))
    /\ UNCHANGED <<objs, sigref, addSent, rmSent, panicked, last, tasks, gone, match,
                   probe, lk, hist, prop>>

\* obj.Implements(name, required) on the object found at "/c": AsInterface,
\* then addInterface
ImplementsStart(t, c, name, typ) ==
    /\ Start(t)
    /\ LET o == LookupObject(cur, Root, c) IN
       /\ o # NilObj
       /\ objs[o].impl # NilImpl
       /\ IF ObjectImplements(objs[o].impl, typ)
          THEN Begin(t, Thread(t, "Implements", "addInterface", "lock", o, name, typ,
                               NilObj, <<o, "interfaces">>))
          ELSE Begin(t, Returned(t, "Implements", o, name, typ, "DoesNotImplement", {}))
    /\ UNCHANGED <<objs, sigref, addSent, rmSent, panicked, last, tasks, gone, match,
                   probe, lk, hist, prop>>

\* obj.Receives(name, required) on the object found at "/c": AsInterface,
\* then addListener
ReceivesStart(t, c, name, typ) ==
    /\ Start(t)
    /\ LET o == LookupObject(cur, Root, c) IN
       /\ o # NilObj
       /\ objs[o].impl # NilImpl
       /\ IF ObjectImplements(objs[o].impl, typ)
          THEN Begin(t, Thread(t, "Receives", "addListener", "lock", o, name, typ,
                               NilObj, <<o, "listeners">>))
          ELSE Begin(t, Returned(t, "Receives", o, name, typ, "DoesNotImplement", {}))
    /\ UNCHANGED <<objs, sigref, addSent, rmSent, panicked, last, tasks, gone, match,
                   probe, lk, hist, prop>>

\* Update: writelk.Lock() and value.Load()
UpdateLock(t) ==
    /\ thr[t].stage = "lock"
    /\ CanLockMutex(thr[t].cell)
    /\ lk' = MapPut(lk, thr[t].cell, t)
    /\ thr' = [thr EXCEPT ![t].stage = "copy",
                          ![t].snap = Load(cur, thr[t].cell[1], thr[t].cell[2]),
                          ![t].build = EmptyMap,
                          ![t].rd = @ \cup {Read(thr[t].cell[1], thr[t].cell[2])}]
    /\ UNCHANGED <<objs, sigref, addSent, rmSent, panicked, last, calls, tasks, gone,
                   match, probe, hist, prop>>

\* the function of an Update: the range loop that copies the map it was
\* handed into a new map
UpdateCopy(t) ==
    /\ thr[t].stage = "copy"
    /\ thr' = [thr EXCEPT ![t].stage = "fn", ![t].build = thr[t].snap]
    /\ UNCHANGED <<objs, sigref, addSent, rmSent, panicked, last, calls, tasks, gone,
                   match, probe, lk, hist, prop>>

\* addInterface: interfaces[name] = iface
AddInterfaceFn(t) ==
    /\ thr[t].pc = "addInterface" /\ thr[t].stage = "fn"
    /\ thr' = [thr EXCEPT ![t].stage = "store",
                          ![t].build = MapPut(@, thr[t].name,
                              Interface(thr[t].name, thr[t].arg, objs[thr[t].o].impl))]
    /\ UNCHANGED <<objs, sigref, addSent, rmSent, panicked, last, calls, tasks, gone,
                   match, probe, lk, hist, prop>>

\* addListener: listeners[name] = iface, then AddMatchSignal for every method
AddListenerFn(t) ==
    /\ thr[t].pc = "addListener" /\ thr[t].stage = "fn"
    /\ LET iface == Interface(thr[t].name, thr[t].arg, objs[thr[t].o].impl)
           keys == IF objs[thr[t].o].bus
                   THEN { <<thr[t].name, m>> : m \in InterfaceMethods(iface) }
                   ELSE {}
       IN thr' = [thr EXCEPT ![t].stage = IF keys = {} THEN "store" ELSE "match",
                             ![t].build = MapPut(@, thr[t].name, iface),
                             ![t].keys = keys]
    /\ UNCHANGED <<objs, sigref, addSent, rmSent, panicked, last, calls, tasks, gone,
                   match, probe, lk, hist, prop>>

\* AddMatchSignal / RemoveMatchSignal: s.mu.Lock()
MatchSignalLock(t) ==
    /\ thr[t].stage \in {"match", "rl.match"}
    /\ CanLockMutex(Mu)
    /\ lk' = MapPut(lk, Mu, t)
    /\ thr' = [thr EXCEPT ![t].stage = IF @ = "match" THEN "matched" ELSE "rl.matched"]
    /\ UNCHANGED <<objs, sigref, addSent, rmSent, panicked, last, calls, tasks, gone,
                   match, probe, hist, prop>>

\* AddMatchSignal / RemoveMatchSignal: the body and the deferred s.mu.Unlock()
MatchSignalCall(t) ==
    /\ thr[t].stage \in {"matched", "rl.matched"}
    /\ \E k \in thr[t].keys :
          /\ Install(IF thr[t].stage = "matched" THEN AddMatchSignal(cur, k[1], k[2])
                     ELSE RemoveMatchSignal(cur, k[1], k[2]))
          /\ thr' = [thr EXCEPT ![t].keys = @ \ {k},
                                ![t].stage =
                                    IF thr[t].stage = "matched"
                                    THEN (IF thr[t].keys = {k} THEN "store" ELSE "match")
                                    ELSE (IF thr[t].keys = {k} THEN "rl.store"
                                          ELSE "rl.match")]
    /\ lk' = MapDel(lk, Mu)
    /\ UNCHANGED <<panicked, last, calls, tasks, gone, match, probe, hist, prop>>

\* addObject: the new object takes over the children of the object it
\* replaces, then objects[name] = object
AddObjectFn(t) ==
    /\ thr[t].pc = "addObject" /\ thr[t].stage = "fn"
    /\ LET name == thr[t].name
           object == thr[t].node
       IN IF name \in DOMAIN thr[t].build
          THEN LET obj == thr[t].build[name] IN
               /\ objs' = [objs EXCEPT ![object].objects = Load(cur, obj, "objects")]
               /\ hist' = [hist EXCEPT ![<<object, "objects">>] =
                                           @ \cup {Load(cur, obj, "objects")}]
               /\ \E l \in CopyMutex(<<obj, "objects">>, <<object, "objects">>) : lk' = l
               /\ thr' = [thr EXCEPT ![t].stage = "store",
                                     ![t].build = MapPut(@, name, object),
                                     ![t].rd = @ \cup {Read(obj, "objects")}]
          ELSE /\ thr' = [thr EXCEPT ![t].stage = "store",
                                     ![t].build = MapPut(@, name, object)]
               /\ UNCHANGED <<objs, hist, lk>>
    /\ UNCHANGED <<sigref, addSent, rmSent, panicked, last, calls, tasks, gone, match,
                   probe, prop>>

\* rmChildObject: obj, ok := objects[name]
RmChildFn(t) ==
    /\ thr[t].pc = "rmChildObject" /\ thr[t].stage = "fn"
    /\ IF thr[t].name \in DOMAIN thr[t].build
       THEN thr' = [thr EXCEPT ![t].stage = "rl.lock",
                               ![t].node = thr[t].build[thr[t].name]]
       ELSE thr' = [thr EXCEPT ![t].stage = "store"]
    /\ UNCHANGED <<objs, sigref, addSent, rmSent, panicked, last, calls, tasks, gone,
                   match, probe, lk, hist, prop>>

\* obj.removeListeners(): the Lock and the Load of its Update
RemoveListenersLock(t) ==
    /\ thr[t].stage = "rl.lock"
    /\ CanLockMutex(<<thr[t].node, "listeners">>)
    /\ lk' = MapPut(lk, <<thr[t].node, "listeners">>, t)
    /\ LET keys == IF objs[thr[t].node].bus
                   THEN ListenerKeys(Load(cur, thr[t].node, "listeners"))
                   ELSE {}
       IN thr' = [thr EXCEPT ![t].stage = IF keys = {} THEN "rl.store" ELSE "rl.match",
                             ![t].keys = keys,
                             ![t].rd = @ \cup {Read(thr[t].node, "listeners")}]
    /\ UNCHANGED <<objs, sigref, addSent, rmSent, panicked, last, calls, tasks, gone,
                   match, probe, hist, prop>>

\* obj.removeListeners(): the Store of an empty map and the Unlock
RemoveListenersStore(t) ==
    /\ thr[t].stage = "rl.store"
    /\ objs' = [objs EXCEPT ![thr[t].node].listeners = EmptyMap]
    /\ hist' = [hist EXCEPT ![<<thr[t].node, "listeners">>] = @ \cup {EmptyMap}]
    /\ lk' = MapDel(lk, <<thr[t].node, "listeners">>)
    /\ thr' = [thr EXCEPT ![t].stage = "replace"]
    /\ UNCHANGED <<sigref, addSent, rmSent, panicked, last, calls, tasks, gone, match,
                   probe, prop>>

\* rmChildObject: a placeholder that takes over the children, or delete
RmChildReplace(t) ==
    /\ thr[t].stage = "replace"
    /\ LET obj == thr[t].node
           name == thr[t].name
       IN IF Load(cur, obj, "objects") # EmptyMap
          THEN LET h == newObjectFromImpl(cur, name, NilImpl, thr[t].o, objs[thr[t].o].bus)
                   object == Len(h.objs)
               IN /\ objs' = [h.objs EXCEPT ![object].objects = Load(cur, obj, "objects")]
                  /\ hist' = [NewCells(cur, h) @@ hist EXCEPT ![<<object, "objects">>] =
                                  @ \cup {Load(cur, obj, "objects")}]
                  /\ \E l \in CopyMutex(<<obj, "objects">>, <<object, "objects">>) :
                         lk' = l
                  /\ thr' = [thr EXCEPT ![t].stage = "store",
                                        ![t].build = MapPut(@, name, object),
                                        ![t].rd = @ \cup {Read(obj, "objects")}]
          ELSE /\ thr' = [thr EXCEPT ![t].stage = "store",
                                     ![t].build = MapDel(@, name),
                                     ![t].rd = @ \cup {Read(obj, "objects")}]
               /\ UNCHANGED <<objs, hist, lk>>
    /\ UNCHANGED <<sigref, addSent, rmSent, panicked, last, calls, tasks, gone, match,
                   probe, prop>>

\* Update: value.Store of what the function returned and writelk.Unlock();
\* rmChildObject then goes on with the parent of an object left without
\* implementation, every other call returns
UpdateStore(t) ==
    /\ thr[t].stage = "store"
    /\ LET o == thr[t].cell[1]
           f == thr[t].cell[2]
       IN /\ objs' = [objs EXCEPT ![o][f] = thr[t].build]
          /\ hist' = [hist EXCEPT ![thr[t].cell] = @ \cup {thr[t].build}]
          /\ lk' = MapDel(lk, thr[t].cell)
          /\ IF /\ thr[t].pc = "rmChildObject"
                /\ ~hasActions(cur, o)
                /\ objs[o].parent # NilObj
             THEN thr' = [thr EXCEPT ![t].stage = "lock", ![t].o = objs[o].parent,
                                     ![t].name = objs[o].name,
                                     ![t].cell = <<objs[o].parent, "objects">>]
             ELSE IF thr[t].pc = "addObject" /\ thr[t].path # <<>>
             THEN thr' = [thr EXCEPT ![t].stage = "walk", ![t].pc = "newObject",
                                     ![t].o = thr[t].node, ![t].cell = NoCell]
             ELSE thr' = [thr EXCEPT ![t].stage = "ret", ![t].pc = Return(t),
                                     ![t].cell = NoCell]
    /\ UNCHANGED <<sigref, addSent, rmSent, panicked, last, calls, tasks, gone, match,
                   probe, prop>>

\* obj.Call(ifaceName, method, args...) on the object found at "/c": the
\* lookups, then the method runs
CallStart(t, c, ifaceName, method, args) ==
    /\ Start(t)
    /\ thr[t].pc = "idle"
    /\ LET o == LookupObject(cur, Root, c) IN
       /\ o # NilObj
       /\ LET r == ObjCall(cur, o, ifaceName, method, args) IN
          /\ r.err # "panic"
          /\ IF r.ran
             THEN /\ \A l \in CallLocks(o) : CanLockMutex(l)
                  /\ lk' = [l \in CallLocks(o) |-> t] @@ lk
                  /\ Begin(t, [Thread(t, "Call", "body", "body", o, ifaceName, method,
                                      NilObj, NoCell)
                                  EXCEPT !.rd = {Read(o, "interfaces")}])
             ELSE /\ Begin(t, Returned(t, "Call", o, ifaceName, method, r.err,
                                       {Read(o, "interfaces")}))
                  /\ UNCHANGED lk
    /\ UNCHANGED <<objs, sigref, addSent, rmSent, panicked, last, tasks, gone, match,
                   probe, hist, prop>>

\* the method run by Call returns
BodyReturn(t) ==
    /\ thr[t].pc = "body"
    /\ thr' = [thr EXCEPT ![t].pc = "idle"]
    /\ lk' = [l \in { x \in DOMAIN lk : lk[x] # t } |-> lk[l]]
    /\ UNCHANGED <<objs, sigref, addSent, rmSent, panicked, last, calls, tasks, gone,
                   match, probe, hist, prop>>

\* mgr.DeliverSignal(iface, member, signal): the Load of the root's children
DeliverSignalStart(t, iface, member) ==
    /\ Start(t)
    /\ LET objects == Load(cur, Root, "objects") IN
       Begin(t, [Thread(t, "DeliverSignal", IF objects = EmptyMap THEN Return(t)
                                            ELSE "DeliverSignal",
                        IF objects = EmptyMap THEN "ret" ELSE "child",
                        Root, iface, member, calls + 1, NoCell)
                    EXCEPT !.keys = { objects[c] : c \in DOMAIN objects },
                           !.todo = Values(objects, DOMAIN objects),
                           !.rd = {Read(Root, "objects")}])
    /\ UNCHANGED <<objs, sigref, addSent, rmSent, panicked, last, tasks, gone, match,
                   probe, lk, hist, prop>>

\* obj.DeliverSignal(iface, member, signal) for one child of the root: the
\* Load of its listeners, the goroutine of a listener found
DeliverChild(t) ==
    /\ thr[t].stage = "child"
    /\ \E o \in thr[t].keys :
          LET matched == ObjDeliverSignal(cur, o, thr[t].name, thr[t].arg)
              n == Cardinality({ x \in tasks : x.sig = thr[t].node })
          IN /\ tasks' = tasks \cup
                     { Task(thr[t].node, n + k, matched[k], objs[matched[k]].impl,
                            thr[t].name, thr[t].arg, <<"string">>) :
                           k \in 1..Len(matched) }
             /\ thr' = [thr EXCEPT ![t].keys = @ \ {o},
                                   ![t].rd = @ \cup {Read(o, "listeners"),
                                                     Read(o, "objects")},
                                   ![t].stage = IF thr[t].keys = {o} THEN "ret" ELSE @,
                                   ![t].pc = IF thr[t].keys = {o} THEN Return(t) ELSE @]
    /\ UNCHANGED <<objs, sigref, addSent, rmSent, panicked, last, calls, gone, match,
                   probe, lk, hist, prop>>

\* root.LookupObject("/c")
LookupObjectStart(t, c) ==
    /\ Start(t)
    /\ Begin(t, [Returned(t, "LookupObject", Root, c, 0, "nil", {Read(Root, "objects")})
                    EXCEPT !.node = LookupObject(cur, Root, c)])
    /\ UNCHANGED <<objs, sigref, addSent, rmSent, panicked, last, tasks, gone, match,
                   probe, lk, hist, prop>>

\* obj.Introspect() on the object found at "/c": getInterfaces
IntrospectStart(t, c) ==
    /\ Start(t)
    /\ LET o == LookupObject(cur, Root, c) IN
       /\ o # NilObj
       /\ Begin(t, [Thread(t, "Introspect", "Introspect", "children", o, c, 0, NilObj,
                           NoCell)
                       EXCEPT !.rd = IF hasActions(cur, o) THEN {Read(o, "interfaces")}
                                     ELSE {}])
    /\ UNCHANGED <<objs, sigref, addSent, rmSent, panicked, last, tasks, gone, match,
                   probe, lk, hist, prop>>

\* obj.Introspect(): getChildren
IntrospectChildren(t) ==
    /\ thr[t].stage = "children"
    /\ thr' = [thr EXCEPT ![t].stage = "ret", ![t].pc = Return(t),
                          ![t].rd = @ \cup {Read(thr[t].o, "objects")}]
    /\ UNCHANGED <<objs, sigref, addSent, rmSent, panicked, last, calls, tasks, gone,
                   match, probe, lk, hist, prop>>

\* one step of a call in progress
Step(t) ==
    \/ UpdateLock(t) \/ UpdateCopy(t) \/ UpdateStore(t)
    \/ AddInterfaceFn(t) \/ AddListenerFn(t) \/ AddObjectFn(t)
    \/ MatchSignalLock(t) \/ MatchSignalCall(t)
    \/ RmChildFn(t) \/ RemoveListenersLock(t) \/ RemoveListenersStore(t)
    \/ RmChildReplace(t)
    \/ DeliverChild(t) \/ IntrospectChildren(t)

\* concurrent calls on a one-level tree
NextConc ==
    \/ \E t \in Threads, c \in Names : NewObjectStart(t, c, ImplTable2)
    \/ \E t \in Threads, c \in Names : DeleteObjectStart(t, c)
    \/ \E t \in Threads, n \in CapNames : ImplementsStart(t, "a", n, TypeCallMe)
    \/ \E t \in Threads : ReceivesStart(t, "a", "Y", TypeNotify)
    \/ \E t \in Threads, m \in MemberNames : CallStart(t, "a", "X", m, <<>>)
    \/ \E t \in Threads : DeliverSignalStart(t, "X", "Notify")
    \/ \E t \in Threads : LookupObjectStart(t, "a")
    \/ \E t \in Threads : IntrospectStart(t, "a")
    \/ \E t \in Threads : UpdateLock(t)
    \/ \E t \in Threads : UpdateCopy(t)
    \/ \E t \in Threads : UpdateStore(t)
    \/ \E t \in Threads : AddInterfaceFn(t)
    \/ \E t \in Threads : AddListenerFn(t)
    \/ \E t \in Threads : AddObjectFn(t)
    \/ \E t \in Threads : MatchSignalLock(t)
    \/ \E t \in Threads : MatchSignalCall(t)
    \/ \E t \in Threads : RmChildFn(t)
    \/ \E t \in Threads : RemoveListenersLock(t)
    \/ \E t \in Threads : RemoveListenersStore(t)
    \/ \E t \in Threads : RmChildReplace(t)
    \/ \E t \in Threads : DeliverChild(t)
    \/ \E t \in Threads : IntrospectChildren(t)
    \/ \E t \in Threads : BodyReturn(t)
    \/ \E g \in 1..ConcCalls, k \in 1..Cardinality(Names) : Listener(g, k)

SpecConc == InitConc /\ [][NextConc]_vars

\* the (interface, member) pairs the match rules are requested for
MatchPairs == {<<"X", "Notify">>, <<"X", "CallMe">>}

\* a thread that is not inside AddMatchSignal or RemoveMatchSignal
NoMatchCall == [op |-> "none", pc |-> "idle", iface |-> "", member |-> "", n |-> 0]

\* a bus manager whose mgrState holds no reference
InitState ==
    /\ objs = newObjectFromImpl(Heap(<<>>, EmptyMap, EmptyMap, EmptyMap),
                                "", NilImpl, NilObj, TRUE).objs
    /\ sigref = [k \in SigKeys |-> 0]
    /\ addSent = [k \in SigKeys |-> 0]
    /\ rmSent = [k \in SigKeys |-> 0]
    /\ panicked = FALSE
    /\ last = NoCall
    /\ calls = 0
    /\ tasks = {}
    /\ gone = {}
    /\ match = NoMatch
    /\ probe = NoProbe
    /\ thr = [t \in Threads |-> NoMatchCall]
    /\ lk = EmptyMap
    /\ hist = EmptyMap
    /\ prop = NoProp

\* AddMatchSignal / RemoveMatchSignal: s.mu.Lock()
StateLock(t, op, iface, member) ==
    /\ calls < StateCalls
    /\ calls' = calls + 1
    /\ thr[t].pc = "idle"
    /\ CanLockMutex(Mu)
    /\ lk' = MapPut(lk, Mu, t)
    /\ thr' = [thr EXCEPT ![t] = [op |-> op, pc |-> "locked", iface |-> iface,
                                  member |-> member, n |-> 0]]
    /\ UNCHANGED <<objs, sigref, addSent, rmSent, panicked, last, tasks, gone, match,
                   probe, hist, prop>>

\* AddMatchSignal / RemoveMatchSignal: the read of s.sigref[key] in the test
StateRead(t) ==
    /\ thr[t].pc = "locked"
    /\ thr' = [thr EXCEPT ![t].pc = "read",
                          ![t].n = sigref[mkSignalKey(thr[t].iface, thr[t].member)]]
    /\ UNCHANGED <<objs, sigref, addSent, rmSent, panicked, last, calls, tasks, gone,
                   match, probe, lk, hist, prop>>

\* AddMatchSignal / RemoveMatchSignal: the request, the new count and the
\* deferred s.mu.Unlock()
StateWrite(t) ==
    /\ thr[t].pc = "read"
    /\ LET h == [cur EXCEPT !.sigref[mkSignalKey(thr[t].iface, thr[t].member)] = thr[t].n]
       IN Install(IF thr[t].op = "Add"
                  THEN AddMatchSignal(h, thr[t].iface, thr[t].member)
                  ELSE RemoveMatchSignal(h, thr[t].iface, thr[t].member))
    /\ lk' = MapDel(lk, Mu)
    /\ thr' = [thr EXCEPT ![t].pc = "idle"]
    /\ UNCHANGED <<panicked, last, calls, tasks, gone, match, probe, hist, prop>>

\* two threads calling AddMatchSignal and RemoveMatchSignal
NextState ==
    \/ \E t \in Threads, op \in {"Add", "Remove"}, p \in MatchPairs :
           StateLock(t, op, p[1], p[2])
    \/ \E t \in Threads : StateRead(t)
    \/ \E t \in Threads : StateWrite(t)

SpecState == InitState /\ [][NextState]_vars

\* the method tables and the descriptors of the objects and interface types
\* a binding is made from
NarrowMethods ==
    UNION { [d -> {Sig(<<"string">>, <<"string">>), Sig(<<"string">>, <<"string", "error">>)}] :
                d \in SUBSET {"M", "N"} }

NarrowDescs == { Desc(m, p) : m \in NarrowMethods, p \in MatchProperties }

\* an object and no binding yet
InitNarrow ==
    /\ objs = newObjectFromImpl(Heap(<<>>, EmptyMap, EmptyMap, EmptyMap),
                                "", NilImpl, NilObj, TRUE).objs
    /\ sigref = [k \in SigKeys |-> 0]
    /\ addSent = [k \in SigKeys |-> 0]
    /\ rmSent = [k \in SigKeys |-> 0]
    /\ panicked = FALSE
    /\ last = NoCall
    /\ calls = 0
    /\ tasks = {}
    /\ gone = {}
    /\ match = NoMatch
    /\ \E o \in NarrowDescs :
          probe = [op |-> "NewObject", obj |-> o, typ |-> NilDesc, impl |-> NilDesc,
                   bound |-> FALSE, arg |-> NilDesc, from |-> NilDesc, err |-> "nil",
                   ret |-> FALSE]
    /\ Idle

\* iface, err := obj.AsInterface(t): the binding is made when err is nil
BindObject(t) ==
    /\ calls < NarrowCalls
    /\ calls' = calls + 1
    /\ ~probe.bound
    /\ LET r == ObjectAsInterface(probe.obj, t) IN
       probe' = [probe EXCEPT !.op = "Object.AsInterface", !.arg = t, !.err = r.err,
                              !.bound = (r.err = "nil"), !.typ = r.typ, !.impl = r.impl]
    /\ UNCHANGED <<objs, sigref, addSent, rmSent, panicked, last, tasks, gone, match,
                   conc>>

\* iface, err = iface.AsInterface(t): the binding is narrowed when err is nil
NarrowBinding(t) ==
    /\ calls < NarrowCalls
    /\ calls' = calls + 1
    /\ probe.bound
    /\ LET r == InterfaceAsInterface(probe, t) IN
       probe' = [probe EXCEPT !.op = "Interface.AsInterface", !.arg = t, !.err = r.err,
                              !.from = probe.typ,
                              !.typ = IF r.err = "nil" THEN r.typ ELSE @,
                              !.impl = IF r.err = "nil" THEN r.impl ELSE @]
    /\ UNCHANGED <<objs, sigref, addSent, rmSent, panicked, last, tasks, gone, match,
                   conc>>

\* iface.Implements(t)
BindingImplements(t) ==
    /\ calls < NarrowCalls
    /\ calls' = calls + 1
    /\ probe.bound
    /\ probe' = [probe EXCEPT !.op = "Interface.Implements", !.arg = t,
                              !.from = probe.typ, !.err = "nil",
                              !.ret = InterfaceImplements(probe, t)]
    /\ UNCHANGED <<objs, sigref, addSent, rmSent, panicked, last, tasks, gone, match,
                   conc>>

\* bindings of one object, narrowed and queried
NextNarrow ==
    \/ \E t \in NarrowDescs \cup {NilDesc} : BindObject(t)
    \/ \E t \in NarrowDescs \cup {NilDesc} : NarrowBinding(t)
    \/ \E t \in NarrowDescs \cup {NilDesc} : BindingImplements(t)

SpecNarrow == InitNarrow /\ [][NextNarrow]_vars

\* the paths registered and deleted by the concurrent calls
ParPaths == {<<"a">>, <<"a", "a">>, <<"a", "b">>}

\* a bus manager with an empty tree, or with listeners at /a and /a/a
InitPar ==
    /\ \E steps \in {<<>>, <<<<<<"a">>, ImplTable2>>, <<<<"a", "a">>, ImplTable2>>>>} :
          LET h0 == Heap(newObjectFromImpl(Heap(<<>>, EmptyMap, EmptyMap, EmptyMap),
                                           "", NilImpl, NilObj, TRUE).objs,
                         [k \in SigKeys |-> 0], [k \in SigKeys |-> 0],
                         [k \in SigKeys |-> 0])
              h == Setup(h0, steps)
          IN /\ objs = h.objs
             /\ sigref = h.sigref
             /\ addSent = h.addSent
             /\ rmSent = h.rmSent
             /\ hist = [c \in { <<o, f>> : o \in 1..Len(h.objs), f \in Fields } |->
                           {h.objs[c[1]][c[2]]}]
    /\ panicked = FALSE
    /\ last = NoCall
    /\ calls = 0
    /\ tasks = {}
    /\ gone = {}
    /\ match = NoMatch
    /\ probe = NoProbe
    /\ thr = [t \in Threads |-> IdleThread]
    /\ lk = EmptyMap
    /\ prop = NoProp

\* one more call of a thread that is between calls
StartPar(t, limit) ==
    /\ calls < limit
    /\ calls' = calls + 1
    /\ thr[t].pc = "idle"

\* root.NewObject(path, impl): newObject on the root
NewObjectPath(t, path, impl, limit) ==
    /\ StartPar(t, limit)
    /\ Begin(t, [Thread(t, "NewObject", "newObject", "walk", Root, "", impl, NilObj,
                        NoCell)
                    EXCEPT !.path = path, !.req = path])
    /\ UNCHANGED <<objs, sigref, addSent, rmSent, panicked, last, tasks, gone, match,
                   probe, lk, hist, prop>>

\* newObject on the object the walk has reached: the last segment makes the
\* object, an earlier one is looked up and, when missing, gets a placeholder;
\* addObject follows for an object made
NewObjectWalk(t) ==
    /\ thr[t].pc = "newObject" /\ thr[t].stage = "walk"
    /\ LET o == thr[t].o
           name == Head(thr[t].path)
           obj == LookupObject(cur, o, name)
       IN IF Len(thr[t].path) > 1 /\ obj # NilObj
          THEN /\ thr' = [thr EXCEPT ![t].o = obj, ![t].path = Tail(@),
                                     ![t].rd = @ \cup {Read(o, "objects")}]
               /\ UNCHANGED <<objs, hist>>
          ELSE LET h == newObjectFromImpl(cur, name,
                                          IF Len(thr[t].path) = 1 THEN thr[t].arg
                                          ELSE NilImpl,
                                          o, objs[o].bus)
               IN /\ objs' = h.objs
                  /\ hist' = NewCells(cur, h) @@ hist
                  /\ thr' = [thr EXCEPT ![t].pc = "addObject", ![t].stage = "lock",
                                        ![t].name = name, ![t].node = Len(h.objs),
                                        ![t].cell = <<o, "objects">>,
                                        ![t].path = Tail(@),
                                        ![t].rd = IF Len(thr[t].path) > 1
                                                  THEN @ \cup {Read(o, "objects")}
                                                  ELSE @]
    /\ UNCHANGED <<sigref, addSent, rmSent, panicked, last, calls, tasks, gone, match,
                   probe, lk, prop>>

\* root.DeleteObject(path): delObject on the root
DeleteObjectPath(t, path, limit) ==
    /\ StartPar(t, limit)
    /\ Begin(t, [Thread(t, "DeleteObject", "delObject", "walk", Root, "", 0, NilObj,
                        NoCell)
                    EXCEPT !.path = path, !.req = path])
    /\ UNCHANGED <<objs, sigref, addSent, rmSent, panicked, last, tasks, gone, match,
                   probe, lk, hist, prop>>

\* delObject on the object the walk has reached: LookupObject, then the
\* child's delObject or, for the last segment, rmChildObject
DelObjectWalk(t) ==
    /\ thr[t].pc = "delObject" /\ thr[t].stage = "walk"
    /\ LET o == thr[t].o
           name == Head(thr[t].path)
           obj == LookupObject(cur, o, name)
       IN thr' = [thr EXCEPT
                     ![t].rd = @ \cup {Read(o, "objects")},
                     ![t].name = name,
                     ![t].path = Tail(@),
                     ![t].o = IF obj # NilObj /\ Len(thr[t].path) > 1 THEN obj ELSE @,
                     ![t].pc = IF obj = NilObj THEN "idle"
                               ELSE IF Len(thr[t].path) = 1 THEN "rmChildObject" ELSE @,
                     ![t].stage = IF obj = NilObj THEN "ret"
                                  ELSE IF Len(thr[t].path) = 1 THEN "lock" ELSE @,
                     ![t].cell = IF obj # NilObj /\ Len(thr[t].path) = 1
                                 THEN <<o, "objects">> ELSE @]
    /\ UNCHANGED <<objs, sigref, addSent, rmSent, panicked, last, calls, tasks, gone,
                   match, probe, lk, hist, prop>>

\* obj.DeliverSignal on the next object of the walk: the Load of its
\* listeners and the goroutine of a listener found
DeliverVisit(t) ==
    /\ thr[t].pc = "DeliverSignal" /\ thr[t].stage = "child"
    /\ LET o == Head(thr[t].todo)
           listeners == Load(cur, o, "listeners")
           found == /\ thr[t].name \in DOMAIN listeners
                    /\ InterfaceLookupMethod(listeners[thr[t].name], thr[t].arg)
           n == Cardinality({ x \in tasks : x.sig = thr[t].node })
       IN /\ tasks' = IF found
                      THEN tasks \cup {Task(thr[t].node, n + 1, o, objs[o].impl,
                                            thr[t].name, thr[t].arg, <<"string">>)}
                      ELSE tasks
          /\ thr' = [thr EXCEPT ![t].stage = "defer",
                                ![t].rd = @ \cup {Read(o, "listeners")}]
    /\ UNCHANGED <<objs, sigref, addSent, rmSent, panicked, last, calls, gone, match,
                   probe, lk, hist, prop>>

\* the deferred function of obj.DeliverSignal: the Load of the children,
\* which the walk visits before it goes on
DeliverDeferred(t) ==
    /\ thr[t].pc = "DeliverSignal" /\ thr[t].stage = "defer"
    /\ LET o == Head(thr[t].todo)
           objects == Load(cur, o, "objects")
           todo == Values(objects, DOMAIN objects) \o Tail(thr[t].todo)
       IN thr' = [thr EXCEPT ![t].todo = todo,
                             ![t].rd = @ \cup {Read(o, "objects")},
                             ![t].stage = IF todo = <<>> THEN "ret" ELSE "child",
                             ![t].pc = IF todo = <<>> THEN "idle" ELSE @]
    /\ UNCHANGED <<objs, sigref, addSent, rmSent, panicked, last, calls, tasks, gone,
                   match, probe, lk, hist, prop>>

\* the thread that delivers the signal
Walker == 1

\* mgr.DeliverSignal(iface, member, signal), the one signal of the run
DeliverSignalOnce(t, iface, member) ==
    /\ \A u \in Threads : thr[u].op # "DeliverSignal"
    /\ thr[t].pc = "idle"
    /\ calls < WalkCalls
    /\ DeliverSignalStart(t, iface, member)

\* one step of a call in progress on a tree of depth two
StepPar(t) ==
    \/ NewObjectWalk(t) \/ DelObjectWalk(t)
    \/ UpdateLock(t) \/ UpdateCopy(t) \/ UpdateStore(t)
    \/ AddObjectFn(t) \/ RmChildFn(t)
    \/ RemoveListenersLock(t) \/ RemoveListenersStore(t)
    \/ MatchSignalLock(t) \/ MatchSignalCall(t)
    \/ RmChildReplace(t)
    \/ DeliverVisit(t) \/ DeliverDeferred(t)

\* concurrent registrations and deletions on a tree of depth two
NextPar ==
    \/ \E t \in Threads, p \in ParPaths : NewObjectPath(t, p, ImplTable2, ParCalls)
    \/ \E t \in Threads, p \in ParPaths : DeleteObjectPath(t, p, ParCalls)
    \/ \E t \in Threads : NewObjectWalk(t)
    \/ \E t \in Threads : DelObjectWalk(t)
    \/ \E t \in Threads : UpdateLock(t)
    \/ \E t \in Threads : UpdateCopy(t)
    \/ \E t \in Threads : UpdateStore(t)
    \/ \E t \in Threads : AddObjectFn(t)
    \/ \E t \in Threads : RmChildFn(t)
    \/ \E t \in Threads : RemoveListenersLock(t)
    \/ \E t \in Threads : RemoveListenersStore(t)
    \/ \E t \in Threads : MatchSignalLock(t)
    \/ \E t \in Threads : MatchSignalCall(t)
    \/ \E t \in Threads : RmChildReplace(t)

SpecPar == InitPar /\ [][NextPar]_vars

\* one signal delivered by one thread while another thread registers and
\* deletes objects
NextWalk ==
    \/ \E t \in Threads \ {Walker}, p \in ParPaths :
           NewObjectPath(t, p, ImplTable2, WalkCalls)
    \/ \E t \in Threads \ {Walker}, p \in ParPaths : DeleteObjectPath(t, p, WalkCalls)
    \/ \E t \in {Walker} : DeliverSignalOnce(t, "X", "Notify")
    \/ \E t \in Threads : NewObjectWalk(t)
    \/ \E t \in Threads : DelObjectWalk(t)
    \/ \E t \in Threads : UpdateLock(t)
    \/ \E t \in Threads : UpdateCopy(t)
    \/ \E t \in Threads : UpdateStore(t)
    \/ \E t \in Threads : AddObjectFn(t)
    \/ \E t \in Threads : RmChildFn(t)
    \/ \E t \in Threads : RemoveListenersLock(t)
    \/ \E t \in Threads : RemoveListenersStore(t)
    \/ \E t \in Threads : MatchSignalLock(t)
    \/ \E t \in Threads : MatchSignalCall(t)
    \/ \E t \in Threads : RmChildReplace(t)
    \/ \E t \in Threads : DeliverVisit(t)
    \/ \E t \in Threads : DeliverDeferred(t)

SpecWalk == InitPar /\ [][NextWalk]_vars

\* calls on a one-level tree
NextCall ==
    \/ \E i \in UserImpls : NewObject(<<"a">>, i, CallCalls)
    \/ \E t \in {TypeCallMe, TypeNotify} : Implements(<<"a">>, "X", t, CallCalls)
    \/ Receives(<<"a">>, "Y", TypeNotify, CallCalls)
    \/ \E p \in CallPaths, c \in CallTargets, a \in CallArgs :
          ObjectCall(p, c[1], c[2], a, CallCalls)
    \/ \E p \in CallPaths, c \in CallTargets, a \in CallArgs :
          BusManagerCall(p, c[1], c[2], a, CallCalls)

SpecCall == Init /\ [][NextCall]_vars

(***************************************************************************)
(* Properties                                                              *)
(***************************************************************************)
post == Heap(objs', sigref', addSent', rmSent')

CheckPaths == Paths \cup DeepPaths \cup BindPaths

Prefix(p, k) == SubSeq(p, 1, k)

IsStrictPrefix(p, q) == Len(p) < Len(q) /\ Prefix(q, Len(p)) = p

DefaultBindings == (fdtIntrospectable :> newIntrospection) @@ (fdtPeer :> newPeer)

\* no implementation, no user-bound capability, no listener
IsPlaceholder(h, o) ==
    /\ h.objs[o].impl = NilImpl
    /\ h.objs[o].interfaces = DefaultBindings
    /\ h.objs[o].listeners = EmptyMap

\* what a client can see of the tree: for every path that resolves, the
\* implementation, the exported bindings and the listener bindings found there
Observable(h) ==
    [q \in { x \in CheckPaths : BusLookupObject(h, x) # NilObj } |->
        LET n == BusLookupObject(h, q) IN
        [impl |-> h.objs[n].impl, interfaces |-> h.objs[n].interfaces,
         listeners |-> h.objs[n].listeners]]

\* C1: after NewObject(path, impl) for a non-root path, every prefix of the
\* path resolves from the root, the full path resolves to the returned node,
\* that node carries impl, and every intermediate node that did not exist
\* before the call is a placeholder.
C1_NewObjectResolves ==
    [][(last'.op = "NewObject" /\ last'.path # <<>>) =>
        LET p == last'.path IN
        /\ \A k \in 1..Len(p) : BusLookupObject(post, Prefix(p, k)) # NilObj
        /\ BusLookupObject(post, p) = last'.ret
        /\ objs'[last'.ret].impl = last'.arg
        /\ \A k \in 1..(Len(p) - 1) :
              BusLookupObject(cur, Prefix(p, k)) = NilObj
                  => IsPlaceholder(post, BusLookupObject(post, Prefix(p, k)))]_vars

C1_Witness ==
    /\ last.op = "NewObject" /\ Len(last.path) = 3 /\ ~last.hit
    /\ Len(objs) = 4
    /\ BusLookupObject(cur, last.path) = last.ret
    /\ objs[last.ret].impl = last.arg
    /\ IsPlaceholder(cur, BusLookupObject(cur, Prefix(last.path, 2)))

\* C2: NewObject(path, impl) on a path where a node exists replaces that node
\* by a new node with impl and only the default bindings; every descendant
\* path that resolved still resolves to the same node; no other node changes
\* (the parent only has its child entry for the path redirected).
C2_NewObjectReplaces ==
    [][(last'.op = "NewObject" /\ last'.path # <<>>
            /\ BusLookupObject(cur, last'.path) # NilObj) =>
        LET p == last'.path
            new == last'.ret
            par == BusLookupObject(cur, Prefix(p, Len(p) - 1))
        IN
        /\ BusLookupObject(post, p) = new
        /\ new = Len(objs) + 1 /\ Len(objs') = Len(objs) + 1
        /\ objs'[new].impl = last'.arg
        /\ objs'[new].interfaces = DefaultBindings
        /\ objs'[new].listeners = EmptyMap
        /\ \A q \in CheckPaths :
              (IsStrictPrefix(p, q) /\ BusLookupObject(cur, q) # NilObj)
                  => BusLookupObject(post, q) = BusLookupObject(cur, q)
        /\ \A n \in 1..Len(objs) : n # par => objs'[n] = objs[n]
        /\ objs'[par] = [objs[par] EXCEPT !.objects[p[Len(p)]] = new]]_vars

C2_Witness ==
    /\ last.op = "NewObject" /\ last.hit /\ last.path # <<>>
    /\ hasChildren(cur, last.ret)
    /\ BusLookupObject(cur, last.path) = last.ret

\* C3: NewObject on the root path returns the root and changes nothing.
C3_NewObjectAtRoot ==
    [][(last'.op = "NewObject" /\ last'.path = <<>>) =>
        /\ last'.ret = Root
        /\ objs' = objs
        /\ sigref' = sigref /\ addSent' = addSent /\ rmSent' = rmSent
        /\ ~panicked']_vars

C3_Witness ==
    /\ last.op = "NewObject" /\ last.path = <<>> /\ last.ret = Root
    /\ hasChildren(cur, Root)
    /\ objs[Root].impl = NilImpl

\* C4: on a tree that holds only the root, NewObject(p, impl) followed by
\* DeleteObject(p) leaves the root with an empty child map.
C4_NewDeleteRoundTrip ==
    [][(last.op = "NewObject" /\ last.fresh /\ last.path # <<>>
            /\ last'.op = "DeleteObject" /\ last'.path = last.path)
        => objs'[Root].objects = EmptyMap]_vars

C4_Witness ==
    /\ last.op = "DeleteObject" /\ Len(last.path) = 3 /\ last.hit
    /\ calls = 2 /\ Len(objs) = 4
    /\ objs[Root].objects = EmptyMap

\* C5: when a DeleteObject has just returned, no non-root node without
\* implementation and without children is reachable from the root.
C5_NoEmptyPlaceholder ==
    last.op = "DeleteObject" =>
        \A q \in CheckPaths \ {<<>>} :
            LET n == BusLookupObject(cur, q) IN
            n # NilObj => (hasActions(cur, n) \/ hasChildren(cur, n))

\* C6: DeleteObject(p) leaves every node with an implementation, other than
\* the one at p, reachable at its path as itself: same implementation, same
\* exported bindings, same listener bindings.
C6_DeleteKeepsOthers ==
    [][last'.op = "DeleteObject" =>
        \A q \in CheckPaths \ {<<>>, last'.path} :
            LET n == BusLookupObject(cur, q) IN
            (n # NilObj /\ hasActions(cur, n)) =>
                /\ BusLookupObject(post, q) = n
                /\ objs'[n].impl = objs[n].impl
                /\ objs'[n].interfaces = objs[n].interfaces
                /\ objs'[n].listeners = objs[n].listeners]_vars

\* C7: DeleteObject(p) on a node with a child keeps the path: p resolves to a
\* placeholder and every descendant path resolves to the same node as before.
C7_DeleteWithChildrenKeepsPath ==
    [][(last'.op = "DeleteObject" /\ last'.path # <<>> /\ last'.hit
            /\ hasChildren(cur, BusLookupObject(cur, last'.path))) =>
        LET p == last'.path IN
        /\ BusLookupObject(post, p) # NilObj
        /\ IsPlaceholder(post, BusLookupObject(post, p))
        /\ \A q \in CheckPaths :
              (IsStrictPrefix(p, q) /\ BusLookupObject(cur, q) # NilObj)
                  => BusLookupObject(post, q) = BusLookupObject(cur, q)]_vars

\* C7: as above, and deleting a placeholder that has children leaves the
\* observable tree unchanged.
C7_DeletePlaceholderUnobservable ==
    [][(last'.op = "DeleteObject" /\ last'.path # <<>> /\ last'.hit
            /\ hasChildren(cur, BusLookupObject(cur, last'.path))) =>
        LET p == last'.path IN
        /\ BusLookupObject(post, p) # NilObj
        /\ IsPlaceholder(post, BusLookupObject(post, p))
        /\ \A q \in CheckPaths :
              (IsStrictPrefix(p, q) /\ BusLookupObject(cur, q) # NilObj)
                  => BusLookupObject(post, q) = BusLookupObject(cur, q)
        /\ (~hasActions(cur, BusLookupObject(cur, p))
               => Observable(post) = Observable(cur))]_vars

\* C8: DeleteObject of the root path or of a path that does not resolve
\* changes no child map, binding map, listener map or reference count.
C8_DeleteMissingIsNoOp ==
    [][(last'.op = "DeleteObject"
            /\ (last'.path = <<>> \/ BusLookupObject(cur, last'.path) = NilObj)) =>
        /\ objs' = objs
        /\ sigref' = sigref /\ addSent' = addSent /\ rmSent' = rmSent
        /\ ~panicked']_vars

C8_Witness ==
    /\ last.op = "DeleteObject" /\ Len(last.path) = 3 /\ ~last.hit
    /\ BusLookupObject(cur, Prefix(last.path, 2)) # NilObj
    /\ BusLookupObject(cur, last.path) = NilObj
    /\ calls = 2 /\ Len(objs) = 4

\* C9: Implements(name, required) on a node with an implementation either
\* fails with does-not-implement and leaves the exported bindings as they
\* were, or succeeds and LookupInterface(name) returns the new binding.
C9_ImplementsAllOrNothing ==
    [][(last'.op = "Implements" /\ objs[last'.o].impl # NilImpl) =>
        LET o == last'.o IN
        IF ObjectImplements(objs[o].impl, last'.arg)
        THEN /\ last'.err = "nil"
             /\ LookupInterface(post, o, last'.name)
                    = Interface(last'.name, last'.arg, objs[o].impl)
        ELSE /\ last'.err = "DoesNotImplement"
             /\ objs'[o].interfaces = objs[o].interfaces
             /\ objs' = objs]_vars

C9_Witness ==
    /\ last.op = "Implements" /\ last.err = "DoesNotImplement"
    /\ objs[last.o].impl # NilImpl
    /\ DOMAIN objs[last.o].interfaces # DefaultNames

\* C10: a second Implements under a name already bound on the node replaces
\* that binding; the bindings under every other name of the node and all
\* bindings of every other node stay as they were.
C10_RebindReplaces ==
    [][(last'.op = "Implements" /\ last'.err = "nil"
            /\ last'.name \in DOMAIN objs[last'.o].interfaces) =>
        LET o == last'.o
            new == Interface(last'.name, last'.arg, objs[o].impl)
            old == objs[o].interfaces[last'.name]
        IN
        /\ LookupInterface(post, o, last'.name) = new
        /\ \A n \in DOMAIN objs'[o].interfaces :
              objs'[o].interfaces[n] = old => old = new
        /\ DOMAIN objs'[o].interfaces = DOMAIN objs[o].interfaces
        /\ \A n \in DOMAIN objs[o].interfaces \ {last'.name} :
              objs'[o].interfaces[n] = objs[o].interfaces[n]
        /\ objs'[o].listeners = objs[o].listeners
        /\ Len(objs') = Len(objs)
        /\ \A m \in 1..Len(objs) : m # o => objs'[m] = objs[m]]_vars

C10_Witness ==
    /\ last.op = "Implements" /\ last.err = "nil" /\ last.hit
    /\ last.arg = TypeNotify
    /\ \E n \in CapNames \ {last.name} : n \in DOMAIN objs[last.o].interfaces

\* C11: Call(interface, method, args) on a node answers unknown-interface
\* when the node has no exported binding of that name, whatever its listener
\* bindings; else unknown-method when the binding does not expose the method;
\* else it calls the operation.  The two errors run no operation body and
\* change no tree, binding, listener or reference-count state.
C11_CallChecksInOrder ==
    [][last'.op = "Call" =>
        LET o == last'.o
            name == last'.name
            member == last'.arg[1]
            args == last'.arg[2]
        IN
        /\ objs' = objs /\ sigref' = sigref /\ addSent' = addSent /\ rmSent' = rmSent
        /\ IF name \notin DOMAIN objs[o].interfaces
           THEN last'.err = "UnknownInterface" /\ ~last'.ran /\ ~panicked'
           ELSE IF member \notin InterfaceMethods(objs[o].interfaces[name])
                THEN last'.err = "UnknownMethod" /\ ~last'.ran /\ ~panicked'
                ELSE /\ last'.err \notin {"UnknownInterface", "UnknownMethod"}
                     /\ ArgsFit(TypeMethods(objs[o].interfaces[name].typ)[member], args)
                            => (last'.ran /\ last'.err = "nil")]_vars

\* a call of a name bound as a listener only
C11_Witness ==
    /\ last.op = "Call" /\ last.err = "UnknownInterface"
    /\ last.name \in DOMAIN objs[last.o].listeners
    /\ "X" \in DOMAIN objs[last.o].interfaces

\* a call of a member the binding does not expose
C11_WitnessMethod ==
    /\ last.op = "Call" /\ last.err = "UnknownMethod"
    /\ last.arg[1] \in DOMAIN ObjectMethods(objs[last.o].impl)

\* C12: mgr.Call(path, interface, method) answers no-object exactly when the
\* path does not resolve, and for every path that resolves, the root path
\* included, it answers what Call(interface, method) on the resolved node
\* answers.
C12_BusCallIsCallOnLookup ==
    [][last'.op = "BusCall" =>
        LET o == BusLookupObject(cur, last'.path) IN
        IF o = NilObj
        THEN last'.err = "NoObject" /\ ~last'.ran
        ELSE /\ last'.err # "NoObject"
             /\ [err |-> last'.err, ran |-> last'.ran]
                    = ObjCall(cur, o, last'.name, last'.arg[1], last'.arg[2])]_vars

\* C12 away from the root path (the part of the claim the code keeps)
C12_BusCallBelowRoot ==
    [][(last'.op = "BusCall" /\ last'.path # <<>>) =>
        LET o == BusLookupObject(cur, last'.path) IN
        IF o = NilObj
        THEN last'.err = "NoObject" /\ ~last'.ran
        ELSE /\ last'.err # "NoObject"
             /\ [err |-> last'.err, ran |-> last'.ran]
                    = ObjCall(cur, o, last'.name, last'.arg[1], last'.arg[2])]_vars

\* C13: every node reachable from the root, the root included, has exported
\* bindings under the introspection name and under the peer name.
C13_DefaultsEverywhere ==
    \A q \in CheckPaths :
        LET n == BusLookupObject(cur, q) IN
        n # NilObj =>
            /\ LookupInterface(cur, n, fdtIntrospectable) # NoInterface
            /\ LookupInterface(cur, n, fdtPeer) # NoInterface

\* a deletion has just put fresh placeholders in the place of a node with a
\* child and of its parent, above a node with an implementation
C13_Witness ==
    /\ last.op = "DeleteObject" /\ last.hit /\ Len(last.path) = 2
    /\ calls = 2 /\ Len(objs) = 6
    /\ BusLookupObject(cur, last.path) = 5
    /\ BusLookupObject(cur, Prefix(last.path, 1)) = 6
    /\ IsPlaceholder(cur, 5) /\ hasChildren(cur, 5)
    /\ IsPlaceholder(cur, 6) /\ hasChildren(cur, 6)
    /\ \E q \in CheckPaths : IsStrictPrefix(last.path, q)
           /\ BusLookupObject(cur, q) # NilObj
           /\ hasActions(cur, BusLookupObject(cur, q))

\* a return list without its trailing error
DropError(out) ==
    IF Len(out) > 0 /\ out[Len(out)] = "error" THEN SubSeq(out, 1, Len(out) - 1) ELSE out

\* C14: a nil required descriptor never matches; otherwise the matcher is
\* true iff every method of R has a same-named method in C with the same
\* argument types and the same return types after a trailing error has been
\* dropped on both sides, and every property of R has a same-named property
\* of the same type in C.
C14_MatcherDropsTrailingError ==
    match.done =>
        (match.ret <=>
            /\ ~match.R.nil
            /\ \A m \in DOMAIN match.R.methods :
                  /\ m \in DOMAIN match.C.methods
                  /\ match.R.methods[m].in = match.C.methods[m].in
                  /\ DropError(match.R.methods[m].out) = DropError(match.C.methods[m].out)
            /\ \A f \in DOMAIN match.R.properties :
                  /\ f \in DOMAIN match.C.properties
                  /\ match.R.properties[f] = match.C.properties[f])

\* C14 amended: as above with the return types compared as declared, a
\* trailing error included.
C14_MatcherExact ==
    match.done =>
        (match.ret <=>
            /\ ~match.R.nil
            /\ \A m \in DOMAIN match.R.methods :
                  /\ m \in DOMAIN match.C.methods
                  /\ match.R.methods[m].in = match.C.methods[m].in
                  /\ match.R.methods[m].out = match.C.methods[m].out
            /\ \A f \in DOMAIN match.R.properties :
                  /\ f \in DOMAIN match.C.properties
                  /\ match.R.properties[f] = match.C.properties[f])

\* a candidate whose method returns (string, error) was matched against a
\* required method returning string and did not match, with extra members
C14_Witness ==
    /\ match.done /\ ~match.ret /\ ~match.R.nil
    /\ DOMAIN match.R.methods = {"M"} /\ DOMAIN match.C.methods = {"M", "N"}
    /\ match.R.methods["M"] = Sig(<<"string">>, <<"string">>)
    /\ match.C.methods["M"] = Sig(<<"string">>, <<"string", "error">>)
    /\ match.R.properties = match.C.properties /\ DOMAIN match.R.properties = {"P"}

\* the nodes reachable from the root
Reachable(h) == { BusLookupObject(h, q) : q \in CheckPaths \cup SigPaths } \ {NilObj}

\* the reachable nodes whose listener map binds iface to a binding that
\* exposes member
Listening(h, iface, member) ==
    { n \in Reachable(h) :
        /\ iface \in DOMAIN h.objs[n].listeners
        /\ member \in InterfaceMethods(h.objs[n].listeners[iface]) }

\* the step is a DeliverSignal
IsDeliver == calls' = calls + 1 /\ last'.op = "DeliverSignal"

\* the step is the goroutine t calling its method
IsListener(t) == calls' = calls /\ t \in tasks /\ t.st = "spawned" /\ t \notin tasks'

\* DeliverSignal starts one goroutine with the payload for every reachable
\* node listening to the signal, and no other
FanOut ==
    IsDeliver =>
        LET new == tasks' \ tasks
            iface == last'.name
            member == last'.arg[1]
        IN /\ tasks \subseteq tasks'
           /\ \A n \in Listening(cur, iface, member) :
                 Cardinality({ t \in new : t.o = n }) = 1
           /\ \A t \in new :
                 /\ t.o \in Listening(cur, iface, member)
                 /\ t.name = iface /\ t.member = member /\ t.body = last'.arg[2]
                 /\ t.impl = objs[t.o].impl
                 /\ t.st = "spawned"
           /\ ~panicked'

\* C15 (the walk alone): FanOut holds of every DeliverSignal.
C15_FanOut == [][FanOut]_vars

\* C15: for every DeliverSignal(I, M, payload) on the root, every reachable
\* node whose listener map binds I to a binding exposing M has that operation
\* invoked exactly once with the payload, and no other operation is invoked:
\* the walk starts exactly one invocation per such node, and every invocation
\* started, once scheduled, runs the operation.
C15_DeliverInvokesOnce ==
    [][/\ FanOut
       /\ \A t \in tasks :
             IsListener(t) => \E st \in {"done", "blocked"} :
                                  [t EXCEPT !.st = st] \in tasks']_vars

\* C16: no DeliverSignal that starts after DeleteObject(p) has returned
\* invokes a listener operation of the node that was at p.
C16_DeletedNotDelivered ==
    [][IsDeliver => \A t \in tasks' \ tasks : t.o \notin gone]_vars

\* a signal delivered after the deletion of one of two listening nodes
C16_Witness ==
    /\ last.op = "DeliverSignal" /\ last.name = "X" /\ last.arg[1] = "Notify"
    /\ last.ret = 1
    /\ \E n \in gone : objs[n].impl = ImplTable2 /\ n \notin Reachable(cur)
    /\ sigref[mkSignalKey("X", "Notify")] = 1
    /\ rmSent[mkSignalKey("X", "Notify")] = 0

\* C17: a listener that never returns stalls nothing: as long as the
\* process lives, every invocation started and not yet run can run, and every
\* signal can be delivered, whatever the other listeners do.
C17_BlockedDoesNotStall ==
    ~panicked =>
        /\ \A t \in tasks : t.st = "spawned" => ENABLED Listener(t.sig, t.k)
        /\ calls < SigCalls =>
              \A s \in Signals : ENABLED DeliverSignal(s[1], s[2], s[3], SigCalls)

\* one listener blocked for ever; the listener of another node ran for the
\* same signal, and a listener ran for a later signal
C17_Witness ==
    \E b \in tasks, d \in tasks, e \in tasks :
        /\ b.st = "blocked" /\ d.st = "done" /\ e.st = "done"
        /\ d.sig = b.sig /\ d.o # b.o
        /\ e.sig > b.sig

\* C18: a listener invocation whose payload does not fit the listener's
\* parameters is dropped: the process goes on, and the other invocations and
\* later calls and signals are served.
C18_ListenerFaultDropped ==
    [][\A t \in tasks :
          (IsListener(t) /\ ~ArgsFit(ObjectMethods(t.impl)[t.member], t.body))
              => /\ ~panicked'
                 /\ \A u \in tasks \ {t} : u \in tasks']_vars

\* what Receives(name, required) does on a node with an implementation: on
\* a mismatch, an error and no change of any map or count; on success, the
\* binding stored in the listener map and the exported bindings untouched
ReceivesOutcome ==
    (calls' = calls + 1 /\ last'.op = "Receives" /\ objs[last'.o].impl # NilImpl) =>
        LET o == last'.o IN
        IF ObjectImplements(objs[o].impl, last'.arg)
        THEN /\ last'.err = "nil"
             /\ objs'[o].listeners[last'.name] = Interface(last'.name, last'.arg, objs[o].impl)
             /\ objs'[o].interfaces = objs[o].interfaces
        ELSE /\ last'.err = "DoesNotImplement"
             /\ objs' = objs
             /\ sigref' = sigref /\ addSent' = addSent /\ rmSent' = rmSent

\* the step is a DeliverSignal for the name of a Receives that has just failed
AfterFailedReceives ==
    /\ IsDeliver
    /\ last.op = "Receives" /\ last.err = "DoesNotImplement"
    /\ last'.name = last.name

\* C19: a Receives the implementation does not satisfy returns an error and
\* changes no listener map, count or request; a later DeliverSignal for that
\* name invokes nothing on that node.  A Receives that succeeds stores the
\* binding in the listener map and not in the exported bindings.
C19_FailedReceivesNeverDelivered ==
    [][/\ ReceivesOutcome
       /\ AfterFailedReceives => \A t \in tasks' \ tasks : t.o # last.o]_vars

\* C19 amended: as above, and a later DeliverSignal for that name invokes on
\* that node what it would have invoked before the failed call: the operation
\* of the binding already stored under the name, nothing if there is none.
C19_ReceivesAllOrNothing ==
    [][/\ ReceivesOutcome
       /\ AfterFailedReceives =>
             \A t \in tasks' \ tasks :
                 t.o = last.o =>
                     /\ last.hit
                     /\ t.member \in InterfaceMethods(objs[last.o].listeners[last.name])
       /\ (AfterFailedReceives /\ ~last.hit) => \A t \in tasks' \ tasks : t.o # last.o]_vars

\* a Receives that failed on a node that already listens under the name
C19_Witness ==
    /\ last.op = "Receives" /\ last.err = "DoesNotImplement" /\ last.hit
    /\ last.arg = TypeCallMeArg
    /\ objs[last.o].listeners[last.name] = Interface(last.name, TypeNotify, objs[last.o].impl)
    /\ last.o \in Reachable(cur)

\* C20: a successful Receives on a node attached to the bus manager adds one
\* to the count of each (interface, member) pair of the binding, and sends
\* AddMatch for a pair exactly when its count was 0; no step sends AddMatch
\* for a pair whose count was not 0, and RemoveMatch is sent once, only by a
\* step that takes the count from above 0 to 0.
C20_MatchRefCounts ==
    [][/\ (calls' = calls + 1 /\ last'.op = "Receives" /\ last'.err = "nil"
               /\ objs[last'.o].bus) =>
             \A i \in CapNames, m \in MemberNames :
                 LET key == mkSignalKey(i, m)
                     mine == i = last'.name /\ m \in DOMAIN TypeMethods(last'.arg)
                 IN /\ sigref'[key] = sigref[key] + (IF mine THEN 1 ELSE 0)
                    /\ addSent'[key] = addSent[key]
                                         + (IF mine /\ sigref[key] = 0 THEN 1 ELSE 0)
                    /\ rmSent'[key] = rmSent[key]
       /\ \A key \in SigKeys :
             /\ addSent'[key] # addSent[key] => sigref[key] = 0
             /\ rmSent'[key] # rmSent[key] =>
                   /\ sigref[key] > 0 /\ sigref'[key] = 0
                   /\ rmSent'[key] = rmSent[key] + 1]_vars

\* a second listener for a pair already subscribed: counted, not requested
C20_Witness ==
    /\ last.op = "Receives" /\ last.err = "nil" /\ last.arg = TypeNotify
    /\ sigref[mkSignalKey(last.name, "Notify")] = 2
    /\ addSent[mkSignalKey(last.name, "Notify")] = 1
    /\ rmSent[mkSignalKey(last.name, "Notify")] = 0

\* the objects, attached or not, that hold a listener for the pair
Listeners(h, iface, member) ==
    { o \in 1..Len(h.objs) : <<iface, member>> \in ListenerKeys(h.objs[o].listeners) }

\* C21: when listeners for one (interface, member) pair are registered on
\* k >= 1 attached nodes and all are removed by deleting their nodes, the
\* transport sees one AddMatch, at the first registration, and one
\* RemoveMatch, at the removal of the last listener, and the count of the pair
\* is 0 at the end: the count is the number of listeners, the requests sent
\* differ by one exactly while there is a listener, AddMatch is sent only by
\* the step that registers the first listener and RemoveMatch only by the
\* step that removes the last one.
C21_OneSubscribeOneUnsubscribe ==
    [][\A i \in CapNames, m \in MemberNames :
          LET key == mkSignalKey(i, m)
              k == Cardinality(Listeners(cur, i, m))
              k1 == Cardinality(Listeners(post, i, m))
          IN /\ sigref'[key] = k1
             /\ addSent'[key] = rmSent'[key] + (IF k1 > 0 THEN 1 ELSE 0)
             /\ addSent'[key] # addSent[key] =>
                   k = 0 /\ k1 = 1 /\ addSent'[key] = addSent[key] + 1
             /\ rmSent'[key] # rmSent[key] =>
                   k = 1 /\ k1 = 0 /\ rmSent'[key] = rmSent[key] + 1]_vars

\* the two nodes that listened for X.Notify were deleted, one after the other
C21_Witness ==
    /\ calls = 2
    /\ Cardinality({ o \in gone : objs[o].impl = ImplTable2 }) = 2
    /\ last.op = "DeleteObject" /\ last.hit
    /\ Listeners(cur, "X", "Notify") = {}
    /\ addSent[mkSignalKey("X", "Notify")] = 1
    /\ rmSent[mkSignalKey("X", "Notify")] = 1
    /\ sigref[mkSignalKey("X", "Notify")] = 0

\* the paths below an introspected object
BelowPaths == PathsUpTo(Names, 2)

NoNode == [name |-> "", interfaces |-> <<>>, children |-> <<>>, none |-> TRUE]

RECURSIVE NodeAt(_, _)
\* the node of a document at a path below its top node
NodeAt(node, q) ==
    IF q = <<>> THEN node
    ELSE LET hits == { i \in 1..Len(node.children) : node.children[i].name = q[1] } IN
         IF hits = {} THEN NoNode
         ELSE NodeAt(node.children[CHOOSE i \in hits : TRUE], Tail(q))

\* the object at a path below the object o
ObjectAt(h, o, q) == IF q = <<>> THEN o ELSE lookupObjectPath(h, o, q)

NamesOf(s) == { s[i].name : i \in 1..Len(s) }

Ascending(s) == \A i \in 1..Len(s), j \in 1..Len(s) : i < j => Less(s[i], s[j])

\* the document lists exactly the objects below its top object
ListsEveryChild ==
    \A q \in BelowPaths :
        LET o == ObjectAt(cur, last.o, q)
            n == NodeAt(probe.node, q)
        IN IF o = NilObj THEN n = NoNode
           ELSE /\ n # NoNode
                /\ n.name = objs[o].name
                /\ Len(n.children) = Cardinality(DOMAIN objs[o].objects)

\* C22: Introspect of a node without an implementation lists no
\* capabilities, not even the built-in ones, but lists every child,
\* recursively; a root with no children renders as an empty node.
C22_PlaceholderIntrospect ==
    last.op = "Introspect" =>
        /\ ListsEveryChild
        /\ \A q \in BelowPaths :
              LET o == ObjectAt(cur, last.o, q) IN
              (o # NilObj /\ objs[o].impl = NilImpl) =>
                  NodeAt(probe.node, q).interfaces = <<>>
        /\ (last.o = Root /\ ~hasChildren(cur, Root)) =>
              probe.node = [name |-> "", interfaces |-> <<>>, children |-> <<>>]

\* the document of the root, whose child a is a placeholder with a child
C22_Witness ==
    /\ last.op = "Introspect" /\ last.o = Root
    /\ LookupObject(cur, Root, "a") # NilObj
    /\ objs[LookupObject(cur, Root, "a")].impl = NilImpl
    /\ NodeAt(probe.node, <<"a", "a">>) # NoNode
    /\ NodeAt(probe.node, <<"a", "a">>).interfaces # <<>>
    /\ NodeAt(probe.node, <<"a">>).interfaces = <<>>

\* the document lists the bindings of every object that has an
\* implementation, each with the operations of its interface, and children,
\* capabilities and operations are in ascending name order whatever the map
\* iteration order is
ListsBindingsSorted ==
    /\ ListsEveryChild
    /\ \A s \in Shifts : Introspect(cur, last.o, s) = probe.node
    /\ \A q \in BelowPaths :
          LET o == ObjectAt(cur, last.o, q)
              n == NodeAt(probe.node, q)
          IN o # NilObj =>
                /\ Ascending(n.children)
                /\ Ascending(n.interfaces)
                /\ hasActions(cur, o) =>
                      /\ Len(n.interfaces) = Cardinality(DOMAIN objs[o].interfaces)
                      /\ NamesOf(n.interfaces) = DOMAIN objs[o].interfaces
                /\ \A i \in 1..Len(n.interfaces) :
                      LET b == objs[o].interfaces[n.interfaces[i].name] IN
                      /\ Ascending(n.interfaces[i].methods)
                      /\ Len(n.interfaces[i].methods) = Cardinality(DOMAIN TypeMethods(b.typ))
                      /\ NamesOf(n.interfaces[i].methods) = DOMAIN TypeMethods(b.typ)

\* C23: the document of an empty root has no children and only the built-in
\* capabilities; after registering a child with a bound operation the root's
\* document shows the child with that capability plus the built-in ones,
\* with children, capabilities and operations in ascending name order
\* independent of map iteration order.
C23_EmptyRootBuiltins ==
    last.op = "Introspect" =>
        /\ (last.o = Root /\ ~hasChildren(cur, Root)) =>
              /\ probe.node.children = <<>>
              /\ NamesOf(probe.node.interfaces) = DefaultNames
        /\ ListsBindingsSorted

\* C23 amended: the document of an empty root has no children and no
\* capabilities at all; the rest as above.
C23_EmptyRootEmpty ==
    last.op = "Introspect" =>
        /\ (last.o = Root /\ ~hasChildren(cur, Root)) =>
              /\ probe.node.children = <<>>
              /\ probe.node.interfaces = <<>>
        /\ ListsBindingsSorted

\* the document of a root with children a and b, a with a bound capability,
\* rendered from maps iterated out of order
C23_Witness ==
    /\ last.op = "Introspect" /\ last.o = Root /\ last.arg = 12
    /\ DOMAIN objs[Root].objects = {"a", "b"}
    /\ NamesOf(NodeAt(probe.node, <<"a">>).interfaces) = DefaultNames \cup {"X"}
    /\ RangeOrder(DOMAIN objs[Root].objects, last.arg) = <<"b", "a">>

AllMembers == MemberNames \cup {"Introspect", "Ping", "GetMachineId", "Other"}

\* C29: a binding exposes exactly the operations of the required interface it
\* was bound with, not those of the implementation: LookupMethod(m) succeeds
\* iff m is an operation of the interface, Methods() is exactly its operation
\* names, each with a method of the implementation, and a call of an
\* operation the implementation has but the interface has not fails with the
\* unknown-method error without running anything.
C29_BindingExposesRequired ==
    /\ \A o \in Reachable(cur) : \A n \in DOMAIN objs[o].interfaces :
          LET b == objs[o].interfaces[n] IN
          /\ \A m \in AllMembers :
                InterfaceLookupMethod(b, m) <=> m \in DOMAIN TypeMethods(b.typ)
          /\ InterfaceMethods(b) = DOMAIN TypeMethods(b.typ)
          /\ InterfaceMethods(b) \subseteq DOMAIN ObjectMethods(b.impl)
    /\ (/\ last.op = "Call"
        /\ last.name \in DOMAIN objs[last.o].interfaces
        /\ last.arg[1] \notin DOMAIN TypeMethods(objs[last.o].interfaces[last.name].typ)) =>
            last.err = "UnknownMethod" /\ ~last.ran

\* a call of Notify, which the implementation has, on a binding to an
\* interface that has only CallMe
C29_Witness ==
    /\ last.op = "Call" /\ last.name = "X" /\ last.arg = <<"Notify", <<"string">>>>
    /\ "X" \in DOMAIN objs[last.o].interfaces
    /\ objs[last.o].interfaces["X"].typ = TypeCallMe
    /\ "Notify" \in DOMAIN ObjectMethods(objs[last.o].interfaces["X"].impl)
    /\ last.err = "UnknownMethod"

\* the parameters before position i that are not of the sender type
BodyIndex(params, i) == Cardinality({ j \in 1..i : params[j] # "sender" })

\* C30: DecodeArguments fails with the invalid-argument error exactly when
\* the number of declared parameters that are not of the sender type differs
\* from the number of body values, or when storing a body value into its
\* parameter fails; on success it returns one value per declared parameter
\* in declaration order, every sender parameter set to the sender and the
\* others filled from the body in order.
C30_DecodeArguments ==
    (probe.op = "Decode" /\ probe.done) =>
        LET params == probe.params
            body == probe.body
            n == BodyIndex(params, Len(params))
            fails == \/ n # Len(body)
                     \/ \E i \in 1..Len(params) :
                           /\ params[i] # "sender"
                           /\ BodyIndex(params, i) <= Len(body)
                           /\ body[BodyIndex(params, i)].t # params[i]
        IN /\ probe.err = "InvalidArg" <=> fails
           /\ probe.err \in {"InvalidArg", "nil"}
           /\ probe.err = "nil" =>
                 /\ Len(probe.ret) = Len(params)
                 /\ \A i \in 1..Len(params) :
                       IF params[i] = "sender"
                       THEN probe.ret[i] = Value("sender", probe.sender)
                       ELSE probe.ret[i] = body[BodyIndex(params, i)]

\* a method taking the sender between two strings, decoded from two strings
C30_Witness ==
    /\ probe.op = "Decode" /\ probe.done
    /\ probe.params = <<"string", "sender", "string">>
    /\ probe.body = <<Value("string", "s2"), Value("string", "s1")>>
    /\ probe.err = "nil"
    /\ probe.ret = <<Value("string", "s2"), Value("sender", ":1.7"), Value("string", "s1")>>

\* C25: Set with a value whose type is not the field's declared type returns
\* the type-mismatch error and leaves the field unchanged; Set with a value
\* of the declared type stores it and returns no error; a Get, also one
\* running concurrently with Set calls, returns the value of the last Set
\* that stored, and the initial value when there is none.
C25_PropertySetGet ==
    [][\A t \in Threads :
          /\ (thr[t].pc = "check" /\ thr'[t].pc # "check") =>
                IF thr[t].arg.t # prop.type
                THEN /\ thr'[t].err = "TypeMismatch" /\ thr'[t].pc = "unlock"
                     /\ prop'.value = prop.value /\ prop'.set = prop.set
                ELSE thr'[t].err = "nil" /\ thr'[t].pc = "write"
          /\ (thr[t].pc = "unlock" /\ thr[t].op = "Set" /\ thr'[t].pc = "idle") =>
                /\ prop.value = prop.set
                /\ thr[t].err = "nil" => prop.value = thr[t].arg
          /\ (thr[t].pc = "read" /\ thr'[t].pc = "runlock") =>
                /\ thr'[t].ret = prop.set
                /\ thr'[t].ret.t = prop.type
                /\ thr'[t].ret.v # "torn"]_vars

\* a Set of the wrong type failed after a Set stored s2, and a Get returned s2
C25_Witness ==
    \E t \in Threads, u \in Threads :
        /\ thr[t].op = "Set" /\ thr[t].pc = "idle" /\ thr[t].err = "TypeMismatch"
        /\ thr[u].op = "Get" /\ thr[u].pc = "idle"
        /\ thr[u].ret = Value("string", "s2")
        /\ prop.value = Value("string", "s2")
        /\ calls = 3


\* C26: every map a lookup, an introspection, a call or a signal delivery
\* loaded from a field of an object is a map that was stored into that field
\* whole, even when an update of the field was in progress at the time
C26_ReadersSeeStoredMaps ==
    \A t \in Threads : \A r \in thr[t].rd : r.m \in hist[<<r.o, r.f>>]

C26_Witness ==
    \E t \in Threads :
        /\ thr[t].op \in {"LookupObject", "Introspect", "Call", "DeliverSignal"}
        /\ \E r \in thr[t].rd : r.busy

\* C27: when the only two calls of a run bind two different names on the
\* same object, or register two different children of the root, and both
\* have returned, both entries are in the map
C27_BothUpdatesKept ==
    \A t, u \in Threads :
        ( /\ t # u
          /\ calls = 2
          /\ thr[t].pc = "idle" /\ thr[u].pc = "idle"
          /\ thr[t].op = thr[u].op
          /\ thr[t].op \in {"Implements", "NewObject"}
          /\ thr[t].o = thr[u].o
          /\ thr[t].name # thr[u].name )
        => \A x \in {t, u} :
              IF thr[x].op = "Implements"
              THEN /\ thr[x].name \in DOMAIN objs[thr[x].o].interfaces
                   /\ objs[thr[x].o].interfaces[thr[x].name] =
                          Interface(thr[x].name, thr[x].arg, objs[thr[x].o].impl)
              ELSE /\ thr[x].name \in DOMAIN objs[Root].objects
                   /\ objs[Root].objects[thr[x].name] = thr[x].node

C27_Witness ==
    \E t, u \in Threads :
        /\ t # u
        /\ calls = 2
        /\ thr[t].pc = "idle" /\ thr[u].pc = "idle"
        /\ thr[t].op = "NewObject" /\ thr[u].op = "NewObject"
        /\ thr[t].name # thr[u].name
        /\ u \in thr[t].during /\ t \in thr[u].during
        /\ DOMAIN objs[Root].objects = {thr[t].name, thr[u].name}

\* a call of the thread t is in progress and not inside a method body
InProgress(t) == thr[t].pc \notin {"idle", "body"}

\* a method body run by Call, or a listener body started by DeliverSignal,
\* has not returned
BodyRunning == (\E t \in Threads : thr[t].pc = "body") \/ tasks # {}

\* C28: no thread inside a method body or between calls holds a write lock
\* or the subscription mutex, and while a method body or a listener body has
\* not returned every call in progress can take its next step, or waits for
\* a lock whose holder can take its next step
C28_NoLockWhileMethodRuns ==
    /\ \A l \in DOMAIN lk : InProgress(lk[l])
    /\ BodyRunning =>
           \A u \in Threads :
               InProgress(u) =>
                   \/ ENABLED Step(u)
                   \/ \E l \in DOMAIN lk : lk[l] # u /\ ENABLED Step(lk[l])

C28_Witness ==
    \E t, u \in Threads :
        /\ thr[t].pc = "body"
        /\ thr[t].op = "Implements" /\ thr[t].inbody /\ thr[t].stage = "ret"
        /\ thr[u].op = "DeleteObject" /\ thr[u].stage = "ret"
        /\ t \in thr[u].during
        /\ "a" \notin DOMAIN objs[Root].objects


\* C31: between calls, the reference count of every (interface, member)
\* pair is the number of nodes reachable from the root whose listener map
\* binds the interface name to a binding that exposes the member
C31_CountsTrackListeners ==
    \A i \in CapNames, m \in MemberNames :
        sigref[mkSignalKey(i, m)] = Cardinality(Listening(cur, i, m))


\* C32: for every key, the count never goes below 0, a RemoveMatchSignal
\* that finds the count at 0 changes nothing and sends nothing, AddMatch and
\* RemoveMatch requests alternate starting with AddMatch, and whenever the
\* mutex is free the requests sent differ by one exactly when the count is
\* above 0
C32_CountAndRequests ==
    [][/\ \A key \in SigKeys :
             /\ sigref'[key] >= 0
             /\ addSent'[key] # addSent[key] =>
                   addSent[key] = rmSent[key] /\ addSent'[key] = addSent[key] + 1
                                              /\ rmSent'[key] = rmSent[key]
             /\ rmSent'[key] # rmSent[key] =>
                   addSent[key] = rmSent[key] + 1 /\ rmSent'[key] = rmSent[key] + 1
                                                  /\ addSent'[key] = addSent[key]
             /\ Mu \notin DOMAIN lk' =>
                   addSent'[key] - rmSent'[key] = (IF sigref'[key] > 0 THEN 1 ELSE 0)
       /\ \A t \in Threads :
             ( /\ thr[t].pc = "read" /\ thr'[t].pc = "idle"
               /\ thr[t].op = "Remove"
               /\ sigref[mkSignalKey(thr[t].iface, thr[t].member)] = 0 )
             => UNCHANGED <<sigref, addSent, rmSent>>]_vars

\* a key was subscribed, unsubscribed and subscribed again, and the
\* RemoveMatchSignal that returned last found the count at 0
C32_Witness ==
    /\ addSent[mkSignalKey("X", "Notify")] = 2
    /\ rmSent[mkSignalKey("X", "Notify")] = 1
    /\ \E t \in Threads :
          /\ thr[t].op = "Remove" /\ thr[t].pc = "idle" /\ thr[t].n = 0
          /\ thr[t].iface = "X" /\ thr[t].member = "Notify"


\* C33: between calls, every entry (name, C) of the child map of a node P
\* reachable from the root has C.parent = P and C.name = name
C33_ParentMatchesChildMap ==
    \A q \in CheckPaths :
        LET P == BusLookupObject(cur, q) IN
        P # NilObj =>
            \A name \in DOMAIN objs[P].objects :
                /\ objs[objs[P].objects[name]].parent = P
                /\ objs[objs[P].objects[name]].name = name


\* the paths strictly below p that resolve in h
Below(h, p) ==
    { q \in CheckPaths \cup SigPaths :
        IsStrictPrefix(p, q) /\ BusLookupObject(h, q) # NilObj }

C38_NoImplementationIsAnError ==
    [][( /\ calls' = calls + 1
         /\ last'.op \in {"Implements", "Receives"}
         /\ objs[last'.o].impl = NilImpl
         /\ DOMAIN TypeMethods(last'.arg) \cup DOMAIN TypeProperties(last'.arg) # {} )
       => /\ last'.err = "DoesNotImplement"
          /\ ~panicked'
          /\ UNCHANGED <<objs, sigref, addSent, rmSent>>]_vars


\* every member of the type t is a member of the type u with the same
\* declared type
MembersWithin(t, u) ==
    /\ \A m \in DOMAIN t.methods :
          m \in DOMAIN u.methods /\ t.methods[m] = u.methods[m]
    /\ \A f \in DOMAIN t.properties :
          f \in DOMAIN u.properties /\ t.properties[f] = u.properties[f]

\* C39: Implements and AsInterface on a binding succeed exactly when the
\* members of the requested type are members, with the same types, of the
\* binding's declared type, whatever the underlying object offers; a
\* narrowed binding has the requested type and the same underlying object,
\* and a failed narrowing leaves the binding as it was
C39_NarrowNeverWidens ==
    /\ probe.op = "Interface.Implements" =>
          /\ probe.ret <=> (~probe.arg.nil /\ MembersWithin(probe.arg, probe.from))
          /\ probe.typ = probe.from
    /\ probe.op = "Interface.AsInterface" =>
          /\ (probe.err = "nil")
                <=> (~probe.arg.nil /\ MembersWithin(probe.arg, probe.from))
          /\ probe.err = "nil" => probe.typ = probe.arg
          /\ probe.err # "nil" => probe.typ = probe.from
    /\ probe.op \in {"Interface.Implements", "Interface.AsInterface"} =>
          /\ probe.impl = probe.obj
          /\ MembersWithin(probe.typ, probe.from)
          /\ MembersWithin(probe.typ, probe.obj)

\* a binding narrowed to one method does not implement the two-method type
\* that the underlying object implements
C39_Witness ==
    /\ probe.op = "Interface.Implements" /\ ~probe.ret
    /\ DOMAIN probe.obj.methods = {"M", "N"}
    /\ DOMAIN probe.typ.methods = {"N"}
    /\ ~probe.arg.nil
    /\ probe.arg.methods = probe.obj.methods
    /\ probe.arg.properties = probe.obj.properties
    /\ ReflectImplements(probe.arg, probe.obj)
    /\ calls = 3


\* C36: whatever registrations and deletions run beside the walk of a
\* DeliverSignal, no two of the invocations it starts are of the listener of
\* the same object
C36_ListenerInvokedOnce ==
    \A x \in tasks, y \in tasks :
        (x.sig = y.sig /\ x.o = y.o) => x = y

\* /a was deleted and replaced by a placeholder while the walk was between
\* /a and its child: the listeners of both were invoked, once each
C36_Witness ==
    /\ thr[Walker].op = "DeliverSignal" /\ thr[Walker].stage = "ret"
    /\ \E u \in Threads \ {Walker} :
          /\ thr[u].op = "DeleteObject" /\ thr[u].req = <<"a">>
          /\ thr[u].stage = "ret"
          /\ Walker \in thr[u].during
    /\ BusLookupObject(cur, <<"a", "a">>) # NilObj
    /\ IsPlaceholder(cur, BusLookupObject(cur, <<"a">>))
    /\ Cardinality(tasks) = 2
    /\ \E x \in tasks : x.o = BusLookupObject(cur, <<"a", "a">>)
    /\ \E x \in tasks : x.o \notin Reachable(cur) /\ objs[x.o].listeners = EmptyMap


\* the thread t has returned from the call it made
Done(t) == thr[t].pc = "idle" /\ thr[t].stage = "ret"

\* C34: when the only two calls of a run are NewObject calls of two threads
\* for different paths and both have returned, each path resolves from the
\* root to the object its call returned
C34_RegistrationsKept ==
    \A t \in Threads, u \in Threads :
        ( /\ t # u
          /\ calls = 2
          /\ Done(t) /\ Done(u)
          /\ thr[t].op = "NewObject" /\ thr[u].op = "NewObject"
          /\ thr[t].req # thr[u].req )
        => BusLookupObject(cur, thr[t].req) = thr[t].node

\* a call is in progress on a tree of depth two
Running(t) == thr[t].pc # "idle"

\* C35: no thread waits for a mutex that no thread is going to unlock, and
\* as long as a call is in progress some thread can take a step
C35_NoThreadWaitsForever ==
    /\ \A t \in Threads :
          (Running(t) /\ thr[t].stage = "lock" /\ thr[t].cell \in DOMAIN lk)
              => lk[thr[t].cell] \in Threads
    /\ (\E t \in Threads : Running(t)) => ENABLED (\E t \in Threads : StepPar(t))

====
